---- MODULE Spec2Model ----
(***************************************************************************)
(* Conductor: the Agent Event Normalizer (agent/src/lib.rs), the Workspace *)
(* Lifecycle Manager (core/src/lib.rs), the Agent Supervisor               *)
(* (daemon/src/bin/daemon.rs) and the session commands of the desktop      *)
(* (desktop/src-tauri/src/lib.rs), modelled as state machines.             *)
(*                                                                         *)
(* JSON objects are records holding exactly the keys that are present;     *)
(* Option<T> is a sequence of length 0 (None) or 1 (Some).                 *)
(*                                                                         *)
(* Specifications: SpecParser (one parser fed JSON values), SpecActions    *)
(* (one parser fed every line shape that emits an action), SpecReaders     *)
(* (two sessions read side by side), SpecCore (workspace_create /          *)
(* workspace_archive with failing steps), SpecFiles (file content and diff *)
(* requests on either platform), SpecRefs (get_repo / get_workspace),      *)
(* SpecMigrate (migrate on stored schemas of any version), SpecRace (two    *)
(* processes in migrate on one database file), SpecSession (session.json   *)
(* written by the core crate and by desktop commands), SpecSupervisor      *)
(* (runs, StopAgent, Shutdown, process exit), LiveSupervisor (the same     *)
(* under fair scheduling), SpecStream (runs of two sessions and their      *)
(* subscribers), SpecPump (one run and every line its child may print),    *)
(* SpecRestart (successive runs of one session id), SpecRpc (the agent     *)
(* RPCs with failing inputs), LivePipes (a child writing to stderr, under  *)
(* fair scheduling), LiveEnded (runs with their subscribers, ended by     *)
(* exit or StopAgent, under fair scheduling), SpecSidecar (creates and     *)
(* archives of workspaces that hold session files), SpecPaths (the path of *)
(* a workspace for caller-given names), SpecNames (auto_workspace_name),   *)
(* SpecAssistant (one parser fed Claude assistant lines), SpecAnswers (one *)
(* parser fed the Codex lines around the answer), SpecEngines (one parser  *)
(* fed lines of both engines and lines lacking a field) and SpecStates     *)
(* (connect, creates and archives on database files with stored rows).     *)
(***************************************************************************)
EXTENDS Integers, Sequences, FiniteSets, TLC

VARIABLES
    \* ---- Event Normalizer (one AgentParser fed line by line)
    parser,      \* the AgentParser: its CodexState and ClaudeState
    fed,         \* history: the JSON values given to parse_value, in order
    emitted,     \* history: what parse_value returned for each of them
    readers,     \* two agent sessions read side by side: the AgentParser
                 \* objects, and per session the lines read and events got
    \* ---- Workspace Lifecycle (registry rows, git metadata, directories)
    rows,        \* workspaces table: sequence of rows, index = insertion order
    dirs,        \* set of workspace paths that exist on disk
    worktrees,   \* git worktree metadata: path -> checked-out branch
    branches,    \* refs/heads/* of the repository
    dirty,       \* set of worktree paths with modified or untracked files
    sidecar,     \* the .conductor-app/ files written into working copies, and
                 \* whether the repository's ignore rules cover them
    pure,        \* the last call of a function of its arguments alone: the
                 \* arguments and what it computed
    coreResult,  \* outcome of the last workspace_create / workspace_archive
    build,       \* the platform the core crate was built for
    fileCall,    \* the last workspace_file_content / workspace_file_diff:
                 \* its arguments, what it returned, and the file reads and
                 \* git invocations it made
    lookup,      \* the last get_repo / get_workspace: the table it read,
                 \* the reference and what it returned
    store,       \* the registry database: PRAGMA user_version, the tables
                 \* and indexes, and the state column of the workspace rows
    migrated,    \* the last migrate: the version it found, what it returned
    migrators,   \* two processes inside migrate on the same database file:
                 \* where each one stands, the version it read, what its
                 \* transaction holds, what it returned; and the write lock
    session,     \* one workspace's .conductor-app/session.json and the clock
    sessionCall, \* the last session_* call of the core crate: the file it
                 \* found, what it returned and the file it left
    upserts,     \* the desktop's session_upsert_resume_id commands: their
                 \* arguments, where each one stands and what it returned
    \* ---- Agent Supervisor (daemon)
    agents,      \* the active-agent map: session id -> handle (run index)
    runs,        \* one record per RunAgent call that has spawned its child
    chan,        \* per run: every AgentEvent sent on its broadcast channel
    subs,        \* broadcast receivers wrapped in response streams
    lock,        \* owner of the agents mutex
    reply,       \* last RPC status returned
    exitTimer,   \* Shutdown has replied; the exit task is sleeping
    exited       \* std::process::exit(0) has run

parserVars == <<parser, fed, emitted, readers>>
sessionVars == <<session, sessionCall, upserts>>
storeVars == <<build, fileCall, lookup, store, migrated, migrators, sessionVars>>
treeVars == <<rows, dirs, worktrees, branches, dirty, sidecar, pure, coreResult>>
coreVars == <<treeVars, storeVars>>
daemonVars == <<agents, runs, chan, subs, lock, reply, exitTimer, exited>>
vars == <<parser, fed, emitted, readers, rows, dirs, worktrees, branches, dirty,
          sidecar, pure, coreResult, build, fileCall, lookup, store, migrated,
          migrators, session, sessionCall, upserts, agents, runs, chan, subs, lock, reply, exitTimer, exited>>

(***************************************************************************)
(* Option and JSON helpers                                                 *)
(***************************************************************************)
None == <<>>
Some(v) == <<v>>
IsSome(o) == o # <<>>
UnwrapOr(o, d) == IF o = <<>> THEN d ELSE o[1]
EmptyMap == [k \in {} |-> <<>>]

\* serde_json Value::get(key) on an object
Get(v, k) == IF k \in DOMAIN v THEN <<v[k]>> ELSE <<>>

\* Map::insert of an optional field
OptField(k, o) == IF o = <<>> THEN EmptyMap ELSE (k :> o[1])

\* Map::insert(k, v): replaces an existing key
Insert(m, k, v) == (k :> v) @@ m

\* faulty variant: the entry stays
Remove_Keep(m, k) == m

\* HashMap::remove(k)
Remove(m, k) == [x \in (DOMAIN m) \ {k} |-> m[x]]

RECURSIVE JoinWith(_, _)
\* [String].join(sep)
JoinWith(parts, sep) ==
    IF parts = <<>> THEN ""
    ELSE IF Len(parts) = 1 THEN parts[1]
    ELSE parts[1] \o sep \o JoinWith(Tail(parts), sep)

\* let x = e; body: e is evaluated once and x stands for its value
Bind(e, Body(_)) == CHOOSE y \in {Body(x) : x \in {e}} : TRUE

RECURSIVE Flatten(_)
Flatten(ss) == IF ss = <<>> THEN <<>> ELSE Head(ss) \o Flatten(Tail(ss))

(***************************************************************************)
(* Event Normalizer: event constructors                                    *)
(***************************************************************************)
agent_event(engine, kind, payload) ==
    Insert(Insert(payload, "type", "agent." \o kind), "engine", engine)

action_event(engine, phase, action, ok, message, level) ==
    agent_event(engine, "action",
        [phase |-> phase, action |-> action]
            @@ OptField("ok", ok)
            @@ OptField("message", message)
            @@ OptField("level", level))

started_event(engine, resume, title, meta) ==
    agent_event(engine, "started",
        [resume |-> resume] @@ OptField("title", title) @@ OptField("meta", meta))

message_event(engine, text) ==
    agent_event(engine, "message", [text |-> text])

completed_event(engine, ok, answer, resume, error, usage) ==
    agent_event(engine, "completed",
        [ok |-> ok, answer |-> answer]
            @@ OptField("resume", resume)
            @@ OptField("error", error)
            @@ OptField("usage", usage))

\* Value::get(key).and_then(Value::as_str); string-typed keys of the input
\* domain only ever hold strings
value_str(value, key) == Get(value, key)

action_map(id, kind, title, detail) ==
    [id |-> id, kind |-> kind, title |-> title, detail |-> detail]

CodexState_default ==
    [resume |-> None, answer |-> None, turn_index |-> 0, note_seq |-> 0]

ClaudeState_default ==
    [resume |-> None, pending |-> EmptyMap, note_seq |-> 0]

AgentParser_new ==
    [codex |-> CodexState_default, claude |-> ClaudeState_default]

\* What a parse function hands back: the Option<Vec<Value>> it returns and
\* the state it leaves behind
Ret(events, state) == [events |-> events, state |-> state]

(***************************************************************************)
(* Event Normalizer: Codex                                                 *)
(***************************************************************************)
saturating_sub(a, b) == IF a >= b THEN a - b ELSE 0

CodexPhase(event_type) ==
    IF event_type = "item.started" THEN "started"
    ELSE IF event_type = "item.updated" THEN "updated"
    ELSE "completed"

CompletedOk(phase, ok) == IF phase = "completed" THEN Some(ok) ELSE None

codex_command_execution(phase, item, action_id) ==
    LET command == UnwrapOr(value_str(item, "command"), "command")
        status == value_str(item, "status")
        exit_code == Get(item, "exit_code")
        detail == EmptyMap @@ OptField("status", status)
                           @@ OptField("exit_code", exit_code)
        action == action_map(action_id, "command", command, detail)
        ok == (status = Some("completed"))
                /\ (IsSome(exit_code) => exit_code[1] = 0)
    IN  <<action_event("codex", phase, action, CompletedOk(phase, ok), None, None)>>

\* result is absent or an object; its content is [arr |-> <<...>>] or another
\* value; JSON null is [null |-> TRUE]
codex_mcp_result_summary(result) ==
    IF result = None THEN None
    ELSE
    LET obj == result[1]
        blocks == IF "content" \notin DOMAIN obj THEN EmptyMap
                  ELSE IF "arr" \in DOMAIN obj.content
                       THEN [content_blocks |-> Len(obj.content.arr)]
                       ELSE [content_blocks |-> 1]
        structured ==
            IF "structured_content" \in DOMAIN obj
            THEN [has_structured |-> "null" \notin DOMAIN obj.structured_content]
            ELSE IF "structured" \in DOMAIN obj
                 THEN [has_structured |-> "null" \notin DOMAIN obj.structured]
                 ELSE EmptyMap
        summary == blocks @@ structured
    IN  IF DOMAIN summary = {} THEN None ELSE Some(summary)

codex_mcp_tool_call(phase, item, action_id) ==
    LET server == value_str(item, "server")
        tool == value_str(item, "tool")
        status == value_str(item, "status")
        joined == UnwrapOr(server, "")
                    \o (IF IsSome(tool) /\ UnwrapOr(server, "") # "" THEN "." ELSE "")
                    \o UnwrapOr(tool, "")
        title == IF joined = "" THEN "tool" ELSE joined
        error == Get(item, "error")
        error_message == IF error = None THEN None ELSE value_str(error[1], "message")
        completed == IF phase = "completed"
                     THEN OptField("error_message", error_message)
                            @@ OptField("result_summary",
                                        codex_mcp_result_summary(Get(item, "result")))
                     ELSE EmptyMap
        detail == EmptyMap @@ OptField("server", server) @@ OptField("tool", tool)
                           @@ OptField("status", status)
                           @@ OptField("arguments", Get(item, "arguments"))
                           @@ completed
        action == action_map(action_id, "tool", title, detail)
        ok == status = Some("completed") /\ error = None
    IN  <<action_event("codex", phase, action, CompletedOk(phase, ok), None, None)>>

\* <<title, changes>>; changes is absent or an array of objects
codex_change_summary(changes) ==
    IF changes = None THEN <<"files", <<>>>>
    ELSE
    LET withPath == SelectSeq(changes[1], LAMBDA c : "path" \in DOMAIN c)
        paths == [i \in DOMAIN withPath |-> withPath[i].path]
        normalized == [i \in DOMAIN withPath |->
                          [path |-> withPath[i].path]
                              @@ OptField("kind", value_str(withPath[i], "kind"))]
        title == IF paths # <<>> THEN JoinWith(paths, ", ")
                 ELSE IF Len(changes[1]) = 0 THEN "files"
                 ELSE ToString(Len(changes[1])) \o " files"
    IN  <<title, normalized>>

codex_file_change(phase, item, action_id) ==
    LET summary == codex_change_summary(Get(item, "changes"))
        status == value_str(item, "status")
        detail == [changes |-> summary[2]] @@ OptField("status", status)
        action == action_map(action_id, "file_change", summary[1], detail)
    IN  IF phase # "completed" THEN <<>>
        ELSE <<action_event("codex", "completed", action,
                            Some(status = Some("completed")), None, None)>>

\* <<done, total, next_text>>; items is absent or an array of objects
codex_todo_summary(items) ==
    IF items = None THEN <<0, 0, None>>
    ELSE
    LET list == items[1]
        done == {i \in DOMAIN list : Get(list[i], "completed") = Some(TRUE)}
        open == {i \in (DOMAIN list) \ done : "text" \in DOMAIN list[i]}
        next_text == IF open = {} THEN None
                     ELSE Some(list[CHOOSE i \in open : \A j \in open : i <= j].text)
    IN  <<Cardinality(done), Len(list), next_text>>

codex_todo_list(phase, item, action_id) ==
    LET summary == codex_todo_summary(Get(item, "items"))
        counts == "todo " \o ToString(summary[1]) \o "/" \o ToString(summary[2])
        title == IF summary[2] = 0 THEN "todo"
                 ELSE IF IsSome(summary[3]) THEN counts \o ": " \o summary[3][1]
                 ELSE counts \o ": done"
        action == action_map(action_id, "note", title,
                             [done |-> summary[1], total |-> summary[2]])
    IN  <<action_event("codex", phase, action, CompletedOk(phase, TRUE), None, None)>>

codex_web_search(phase, item, action_id) ==
    LET query == UnwrapOr(value_str(item, "query"), "search")
        action == action_map(action_id, "web_search", query, [query |-> query])
    IN  <<action_event("codex", phase, action, CompletedOk(phase, TRUE), None, None)>>

codex_reasoning(phase, item, action_id) ==
    LET text == UnwrapOr(value_str(item, "text"), "note")
        action == action_map(action_id, "note", text, EmptyMap)
    IN  <<action_event("codex", phase, action, CompletedOk(phase, TRUE), None, None)>>

codex_item_error(item, action_id) ==
    LET message == UnwrapOr(value_str(item, "message"), "error")
        action == action_map(action_id, "warning", message, [message |-> message])
    IN  <<action_event("codex", "completed", action, Some(FALSE),
                       Some(message), Some("warning"))>>

\* Returns the Vec<Value> and the CodexState after the call
\* an answer taken from completed items only
record_answer_CompletedOnly(state, phase, text) ==
    IF phase = "completed" THEN [state EXCEPT !.answer = Some(text)] ELSE state

\* state.answer = Some(text.to_string()), whatever the phase of the item
record_answer(state, phase, text) == [state EXCEPT !.answer = Some(text)]

codex_item_events(phase, item, state) ==
    LET item_type == UnwrapOr(Get(item, "type"), "")
        action_id == value_str(item, "id")
    IN  IF item_type = "agent_message"
        THEN IF IsSome(value_str(item, "text"))
             THEN Ret(<<message_event("codex", item.text)>>,
                      record_answer(state, phase, item.text))
             ELSE Ret(<<>>, state)
        ELSE IF action_id = None THEN Ret(<<>>, state)
        ELSE IF item_type = "command_execution"
             THEN Ret(codex_command_execution(phase, item, action_id[1]), state)
        ELSE IF item_type = "mcp_tool_call"
             THEN Ret(codex_mcp_tool_call(phase, item, action_id[1]), state)
        ELSE IF item_type = "web_search"
             THEN Ret(codex_web_search(phase, item, action_id[1]), state)
        ELSE IF item_type = "file_change"
             THEN Ret(codex_file_change(phase, item, action_id[1]), state)
        ELSE IF item_type = "todo_list"
             THEN Ret(codex_todo_list(phase, item, action_id[1]), state)
        ELSE IF item_type = "reasoning"
             THEN Ret(codex_reasoning(phase, item, action_id[1]), state)
        ELSE IF item_type = "error"
             THEN Ret(codex_item_error(item, action_id[1]), state)
        ELSE Ret(<<>>, state)

\* faulty variant: the thread id is reported but not recorded
CodexThreadStarted_NoRecord(value, state) ==
    LET thread_id == value_str(value, "thread_id")
    IN  IF thread_id = None THEN Ret(None, state)
        ELSE Ret(Some(<<started_event("codex", thread_id[1], Some("Codex"), None)>>),
                 state)

CodexThreadStarted(value, state) ==
    LET thread_id == value_str(value, "thread_id")
    IN  IF thread_id = None THEN Ret(None, state)
        ELSE Ret(Some(<<started_event("codex", thread_id[1], Some("Codex"), None)>>),
                 [state EXCEPT !.resume = thread_id])

\* a turn.started that leaves the counter alone
CodexTurnStarted_NoCount(value, state) ==
    LET action_id == "turn:" \o ToString(state.turn_index)
        action == action_map(action_id, "turn", "turn started", EmptyMap)
    IN  Ret(Some(<<action_event("codex", "started", action, None, None, None)>>),
            state)

CodexTurnStarted(value, state) ==
    LET action_id == "turn:" \o ToString(state.turn_index)
        action == action_map(action_id, "turn", "turn started", EmptyMap)
    IN  Ret(Some(<<action_event("codex", "started", action, None, None, None)>>),
            [state EXCEPT !.turn_index = @ + 1])

CodexTurnCompleted(value, state) ==
    LET action_id == "turn:" \o ToString(saturating_sub(state.turn_index, 1))
        action == action_map(action_id, "turn", "turn completed", EmptyMap)
    IN  Ret(Some(<<action_event("codex", "completed", action, Some(TRUE), None, None),
                   completed_event("codex", TRUE, UnwrapOr(state.answer, ""),
                                   state.resume, None, Get(value, "usage"))>>),
            state)

CodexTurnFailed(value, state) ==
    LET err == Get(value, "error")
        error_msg == IF IsSome(err) THEN Get(err[1], "message") ELSE None
    IN  Ret(Some(<<completed_event("codex", FALSE, UnwrapOr(state.answer, ""),
                                   state.resume, error_msg, None)>>),
            state)

\* the note counted before the message is looked at
CodexError_CountFirst(value, state) ==
    LET message == value_str(value, "message")
        seq == state.note_seq + 1
        action_id == "codex.note." \o ToString(seq)
    IN  IF message = None THEN Ret(None, [state EXCEPT !.note_seq = seq])
        ELSE Ret(Some(<<action_event("codex", "completed",
                            action_map(action_id, "warning", message[1],
                                       [message |-> message[1]]),
                            Some(FALSE), message, Some("warning"))>>),
                 [state EXCEPT !.note_seq = seq])

CodexError(value, state) ==
    LET message == value_str(value, "message")
        seq == state.note_seq + 1
        action_id == "codex.note." \o ToString(seq)
    IN  IF message = None THEN Ret(None, state)
        ELSE Ret(Some(<<action_event("codex", "completed",
                            action_map(action_id, "warning", message[1],
                                       [message |-> message[1]]),
                            Some(FALSE), message, Some("warning"))>>),
                 [state EXCEPT !.note_seq = seq])

CodexItem(value, state) ==
    LET item == Get(value, "item")
    IN  IF item = None THEN Ret(None, state)
        ELSE Bind(codex_item_events(CodexPhase(value.type), item[1], state),
                  LAMBDA r : Ret(Some(r.events), r.state))

parse_codex_event(value, state) ==
    LET event_type == Get(value, "type")
    IN  IF event_type = None THEN Ret(None, state)
        ELSE IF event_type[1] = "thread.started" THEN CodexThreadStarted(value, state)
        ELSE IF event_type[1] = "turn.started" THEN CodexTurnStarted(value, state)
        ELSE IF event_type[1] = "turn.completed" THEN CodexTurnCompleted(value, state)
        ELSE IF event_type[1] = "turn.failed" THEN CodexTurnFailed(value, state)
        ELSE IF event_type[1] = "error" THEN CodexError(value, state)
        ELSE IF event_type[1] \in {"item.started", "item.updated", "item.completed"}
             THEN CodexItem(value, state)
        ELSE Ret(None, state)

(***************************************************************************)
(* Event Normalizer: Claude                                                *)
(***************************************************************************)
\* str::to_lowercase, tabulated on the tool names of the input domain
to_lowercase(name) ==
    CASE name = "Bash" -> "bash"
      [] name = "Edit" -> "edit"
      [] name = "WebSearch" -> "websearch"
      [] name = "Task" -> "task"
      [] name = "TodoWrite" -> "todowrite"
      [] name = "Grep" -> "grep"
      [] OTHER -> name

TOOL_KIND_MAP ==
    <<  <<"bash", "command">>, <<"shell", "command">>,
        <<"read", "file_change">>, <<"edit", "file_change">>,
        <<"write", "file_change">>, <<"multiedit", "file_change">>,
        <<"websearch", "web_search">>, <<"web_search", "web_search">>,
        <<"webfetch", "web_search">>, <<"browser", "web_search">>,
        <<"task", "subagent">>, <<"agent", "subagent">> >>

\* faulty variant: the lowercased tool name is the kind
tool_kind_Name(name) == to_lowercase(name)

tool_kind(name) ==
    LET name_lower == to_lowercase(name)
        hits == {i \in DOMAIN TOOL_KIND_MAP : TOOL_KIND_MAP[i][1] = name_lower}
    IN  IF hits = {} THEN "tool"
        ELSE TOOL_KIND_MAP[CHOOSE i \in hits : \A j \in hits : i <= j][2]

\* first key of `keys` holding a non-empty string
tool_input_path(tool_input, keys) ==
    LET hits == {i \in DOMAIN keys :
                    /\ keys[i] \in DOMAIN tool_input
                    /\ tool_input[keys[i]] # ""}
    IN  IF hits = {} THEN None
        ELSE Some(tool_input[keys[CHOOSE i \in hits : \A j \in hits : i <= j]])

\* get(a).or_else(|| get(b)).and_then(as_str).unwrap_or(name)
FirstOf(tool_input, a, b, name) ==
    IF a \in DOMAIN tool_input THEN tool_input[a]
    ELSE IF b \in DOMAIN tool_input THEN tool_input[b]
    ELSE name

\* <<kind, title>>
tool_kind_and_title(name, tool_input) ==
    LET kind == tool_kind(name)
        title ==
            CASE kind = "command" -> UnwrapOr(Get(tool_input, "command"), name)
              [] kind = "file_change" ->
                    UnwrapOr(tool_input_path(tool_input, <<"file_path", "path">>), name)
              [] kind = "web_search" -> FirstOf(tool_input, "query", "url", name)
              [] kind = "subagent" -> FirstOf(tool_input, "title", "name", name)
              [] OTHER -> name
    IN  <<kind, title>>

TodoStatus(todo) == UnwrapOr(Get(todo, "status"), "pending")

TodoTask(todo) ==
    IF "activeForm" \in DOMAIN todo THEN Some(todo.activeForm)
    ELSE Get(todo, "content")

\* <<title, detail>>
parse_claude_todos(tool_input) ==
    IF "todos" \notin DOMAIN tool_input THEN <<"todo", EmptyMap>>
    ELSE
    LET todos == tool_input.todos
        completed == Cardinality({i \in DOMAIN todos : TodoStatus(todos[i]) = "completed"})
        in_progress == Cardinality({i \in DOMAIN todos : TodoStatus(todos[i]) = "in_progress"})
        pending == Cardinality({i \in DOMAIN todos :
                        TodoStatus(todos[i]) \notin {"completed", "in_progress"}})
        cand == {i \in DOMAIN todos :
                    TodoStatus(todos[i]) = "in_progress" /\ IsSome(TodoTask(todos[i]))}
        current_task == IF cand = {} THEN None
                        ELSE TodoTask(todos[CHOOSE i \in cand : \A j \in cand : i <= j])
        total == pending + in_progress + completed
        counts == "todo " \o ToString(completed) \o "/" \o ToString(total)
        title == IF IsSome(current_task) THEN counts \o ": " \o current_task[1]
                 ELSE IF completed = total /\ total > 0 THEN counts \o ": done"
                 ELSE counts
        detail == [pending |-> pending, in_progress |-> in_progress,
                   completed |-> completed, total |-> total, todos |-> todos]
                    @@ OptField("current_task", current_task)
    IN  <<title, detail>>

\* content is absent, [str |-> s], [arr |-> <<objects>>] or [obj |-> object]
claude_result_preview(content) ==
    IF content = None THEN ""
    ELSE IF "str" \in DOMAIN content[1] THEN content[1].str
    ELSE IF "arr" \in DOMAIN content[1]
         THEN JoinWith(
                SelectSeq([i \in DOMAIN content[1].arr |->
                              UnwrapOr(Get(content[1].arr[i], "text"), "")],
                          LAMBDA t : t # ""),
                "\n")
    ELSE UnwrapOr(Get(content[1].obj, "text"), "")

\* str::lines().next().unwrap_or("thinking"), tabulated on the input domain
first_line(thinking) ==
    CASE thinking = "" -> "thinking"
      [] thinking = "plan\nmore" -> "plan"
      [] OTHER -> thinking

\* faulty variant: the fabricated action is titled with the id
FabricatedAction_IdTitle(tool_use_id) ==
    action_map(tool_use_id, "tool", tool_use_id, EmptyMap)

\* The action a tool_result gets when nothing is pending under its id
FabricatedAction(tool_use_id) == action_map(tool_use_id, "tool", "tool", EmptyMap)

\* faulty variant: the pending action is not looked up
TakePending_NoLookup(pending, tool_use_id) ==
    action_map(tool_use_id, "tool", "tool", EmptyMap)

\* pending.remove(tool_use_id).unwrap_or_else(fabricate)
TakePending(pending, tool_use_id) ==
    IF tool_use_id \in DOMAIN pending THEN pending[tool_use_id]
    ELSE FabricatedAction(tool_use_id)

\* acc = [events, text_parts, state]: the loop's locals and the ClaudeState
ClaudeToolUse(block, acc) ==
    LET tool_id == value_str(block, "id")
        name == UnwrapOr(value_str(block, "name"), "tool")
        tool_input == UnwrapOr(Get(block, "input"), EmptyMap)
        todo == parse_claude_todos(tool_input)
        kt == tool_kind_and_title(name, tool_input)
        path == tool_input_path(tool_input, <<"file_path", "path">>)
        changes == IF kt[1] = "file_change" /\ IsSome(path)
                   THEN Some(<<[path |-> path[1], kind |-> "update"]>>)
                   ELSE None
        detail == [name |-> name, input |-> tool_input] @@ OptField("changes", changes)
        action == IF to_lowercase(name) = "todowrite"
                  THEN action_map(tool_id[1], "todo", todo[1], todo[2])
                  ELSE action_map(tool_id[1], kt[1], kt[2], detail)
    IN  IF tool_id = None THEN acc
        ELSE [acc EXCEPT
                !.state.pending = Insert(@, tool_id[1], action),
                !.events = Append(@, action_event("claude", "started", action,
                                                  None, None, None))]

ClaudeToolResult(block, acc) ==
    LET tool_use_id == value_str(block, "tool_use_id")
        taken == TakePending(acc.state.pending, tool_use_id[1])
        preview == claude_result_preview(Get(block, "content"))
        is_error == (Get(block, "is_error") = Some(TRUE))
        detail == Insert(Insert(Insert(Insert(taken.detail,
                    "tool_use_id", tool_use_id[1]),
                    "result_preview", preview),
                    "result_len", Len(preview)),
                    "is_error", is_error)
        action == [taken EXCEPT !.detail = detail]
    IN  IF tool_use_id = None THEN acc
        ELSE [acc EXCEPT
                !.state.pending = Remove(@, tool_use_id[1]),
                !.events = Append(@, action_event("claude", "completed", action,
                                                  Some(~is_error), None, None))]

ClaudeThinking(block, acc) ==
    LET thinking == value_str(block, "thinking")
        seq == acc.state.note_seq + 1
        action == action_map("claude.note." \o ToString(seq), "note",
                             first_line(thinking[1]), [thinking |-> thinking[1]])
    IN  IF thinking = None THEN acc
        ELSE [acc EXCEPT
                !.state.note_seq = seq,
                !.events = Append(@, action_event("claude", "completed", action,
                                                  Some(TRUE), None, None))]

ClaudeText(block, acc) ==
    LET text == value_str(block, "text")
    IN  IF text = None THEN acc
        ELSE [acc EXCEPT !.text_parts = Append(@, text[1])]

ClaudeBlock(block, acc) ==
    LET block_type == UnwrapOr(Get(block, "type"), "")
    IN  CASE block_type = "tool_use" -> ClaudeToolUse(block, acc)
          [] block_type = "tool_result" -> ClaudeToolResult(block, acc)
          [] block_type = "thinking" -> ClaudeThinking(block, acc)
          [] block_type = "text" -> ClaudeText(block, acc)
          [] OTHER -> acc

RECURSIVE ClaudeBlocks(_, _)
\* for block in content { ... }
ClaudeBlocks(content, acc) ==
    IF content = <<>> THEN acc
    ELSE Bind(ClaudeBlock(Head(content), acc),
              LAMBDA next : ClaudeBlocks(Tail(content), next))

ClaudeSystem(value, state) ==
    LET session_id == value_str(value, "session_id")
        keys == {"cwd", "tools", "permissionMode", "output_style", "model"}
        meta == [k \in keys \cap DOMAIN value |-> value[k]]
    IN  IF value_str(value, "subtype") # Some("init") THEN Ret(Some(<<>>), state)
        ELSE IF session_id = None THEN Ret(None, state)
        ELSE Ret(Some(<<started_event("claude", session_id[1],
                            value_str(value, "model"),
                            IF DOMAIN meta = {} THEN None ELSE Some(meta))>>),
                 [state EXCEPT !.resume = session_id])

\* after the loop: the agent.message, when any text block was seen
\* the message put ahead of the events of the blocks
ClaudeAssistantDone_MessageFirst(acc) ==
    Ret(Some(IF acc.text_parts = <<>> THEN acc.events
             ELSE <<message_event("claude", JoinWith(acc.text_parts, "\n"))>>
                      \o acc.events),
        acc.state)

ClaudeAssistantDone(acc) ==
    Ret(Some(IF acc.text_parts = <<>> THEN acc.events
             ELSE Append(acc.events,
                         message_event("claude", JoinWith(acc.text_parts, "\n")))),
        acc.state)

ClaudeAssistant(value, state) ==
    LET message == Get(value, "message")
        content == IF message = None THEN None ELSE Get(message[1], "content")
    IN  IF content = None THEN Ret(None, state)
        ELSE Bind(ClaudeBlocks(content[1],
                        [events |-> <<>>, text_parts |-> <<>>, state |-> state]),
                  ClaudeAssistantDone)

ClaudeResult(value, state) ==
    LET ok == (Get(value, "is_error") # Some(TRUE))
        answer == UnwrapOr(value_str(value, "result"), "")
    IN  Ret(Some(<<completed_event("claude", ok, answer, state.resume,
                        IF ok THEN None ELSE Some(answer),
                        Get(value, "usage"))>>),
            state)

parse_claude_event(value, state) ==
    LET event_type == Get(value, "type")
    IN  IF event_type = None THEN Ret(None, state)
        ELSE IF event_type[1] = "system" THEN ClaudeSystem(value, state)
        ELSE IF event_type[1] = "assistant" THEN ClaudeAssistant(value, state)
        ELSE IF event_type[1] = "result" THEN ClaudeResult(value, state)
        ELSE Ret(None, state)

\* AgentParser::parse_value: Codex first, Claude when Codex answers None
parse_value(p, value) ==
    Bind(parse_codex_event(value, p.codex), LAMBDA c :
        IF IsSome(c.events)
        THEN Ret(c.events, [p EXCEPT !.codex = c.state])
        ELSE Bind(parse_claude_event(value, p.claude), LAMBDA k :
                Ret(k.events, [codex |-> c.state, claude |-> k.state])))

(***************************************************************************)
(* Event Normalizer: the parser fed a bounded stream of JSON values        *)
(***************************************************************************)
MaxFed == 3

ToolIds == {"u1", "u2"}

ToolUse(id, name, input) ==
    [type |-> "tool_use", id |-> id, name |-> name, input |-> input]

ToolResult(id) == [type |-> "tool_result", tool_use_id |-> id, content |-> [str |-> "ok"]]

Assistant(blocks) == [type |-> "assistant", message |-> [content |-> blocks]]

\* Inputs are kept in sequences: the same key holds a string in one vendor
\* shape and an object in another, so they are never compared as a set
ToolUseBlocks ==
    << ToolUse("u1", "Bash", [command |-> "ls"]),
       ToolUse("u2", "Bash", [command |-> "ls"]),
       ToolUse("u1", "Grep", EmptyMap) >>

ToolResultBlocks ==
    << ToolResult("u1"),
       ToolResult("u2"),
       ToolResult("u1") @@ [is_error |-> TRUE],
       ToolResult("u1") @@ [is_error |-> FALSE] >>

OtherBlocks ==
    << [type |-> "text", text |-> "hello"],
       [type |-> "thinking", thinking |-> "plan\nmore"] >>

SingleBlocks == ToolUseBlocks \o ToolResultBlocks \o OtherBlocks

ClaudeValues ==
    [i \in DOMAIN SingleBlocks |-> Assistant(<<SingleBlocks[i]>>)]
        \o << Assistant(<<ToolUse("u2", "Bash", [command |-> "ls"]), ToolResult("u2")>>),
               [type |-> "assistant"],
               [type |-> "system", subtype |-> "init", session_id |-> "s1",
                model |-> "sonnet"],
               [type |-> "result", result |-> "done", is_error |-> FALSE] >>

CodexValues ==
    << [type |-> "thread.started", thread_id |-> "t1"],
       [type |-> "thread.started", thread_id |-> "t2"],
       [type |-> "thread.started"],
       [type |-> "turn.started"],
       [type |-> "turn.completed"],
       [type |-> "turn.failed", error |-> [message |-> "boom"]],
       [type |-> "error", message |-> "slow down"],
       [type |-> "item.completed",
        item |-> [type |-> "agent_message", text |-> "answer"]],
       [type |-> "item.completed",
        item |-> [type |-> "command_execution", id |-> "u1", command |-> "ls",
                  status |-> "completed", exit_code |-> 0]] >>

CodexItemLine(event_type, item) == [type |-> event_type, item |-> item]

\* lines of every shape that yields an agent.action, and some that do not
ActionValues ==
    << [type |-> "turn.started"],
       [type |-> "error", message |-> "slow down"],
       CodexItemLine("item.completed",
           [type |-> "command_execution", id |-> "i1", command |-> "ls",
            status |-> "failed", exit_code |-> 2]),
       CodexItemLine("item.started",
           [type |-> "mcp_tool_call", id |-> "i1", server |-> "fs", tool |-> "read"]),
       CodexItemLine("item.completed",
           [type |-> "mcp_tool_call", id |-> "i1", tool |-> "read",
            status |-> "completed",
            result |-> [content |-> [arr |-> <<"a", "b">>],
                        structured_content |-> [null |-> TRUE]]]),
       CodexItemLine("item.completed",
           [type |-> "web_search", id |-> "i1", query |-> "tla"]),
       CodexItemLine("item.completed",
           [type |-> "file_change", id |-> "i1", status |-> "completed",
            changes |-> <<[path |-> "a.rs", kind |-> "update"], [kind |-> "add"]>>]),
       CodexItemLine("item.updated",
           [type |-> "todo_list", id |-> "i1",
            items |-> <<[text |-> "one", completed |-> TRUE], [text |-> "two"]>>]),
       CodexItemLine("item.completed", [type |-> "reasoning", id |-> "i1"]),
       CodexItemLine("item.completed",
           [type |-> "error", id |-> "i1", message |-> "bad"]),
       CodexItemLine("item.completed", [type |-> "plan_update", id |-> "i1"]),
       CodexItemLine("item.completed", [type |-> "web_search"]),
       Assistant(<<ToolUse("u1", "Bash", [command |-> "ls"])>>),
       Assistant(<<ToolUse("u1", "Edit", [file_path |-> "a.rs"])>>),
       Assistant(<<ToolUse("u1", "WebSearch", [query |-> "tla"])>>),
       Assistant(<<ToolUse("u1", "Task", EmptyMap)>>),
       Assistant(<<ToolUse("u1", "TodoWrite",
                           [todos |-> <<[content |-> "one", status |-> "completed"]>>])>>),
       Assistant(<<ToolUse("u1", "Grep", EmptyMap)>>),
       Assistant(<<ToolResult("u1")>>),
       Assistant(<<[type |-> "thinking", thinking |-> "plan\nmore"]>>) >>

\* lines that read or write parser state, for the two-session model
ReaderValues ==
    << Assistant(<<ToolUse("u1", "Bash", [command |-> "ls"])>>),
       Assistant(<<ToolResult("u1")>>),
       Assistant(<<[type |-> "thinking", thinking |-> "plan\nmore"]>>),
       [type |-> "thread.started", thread_id |-> "t1"],
       [type |-> "turn.started"],
       [type |-> "turn.completed"] >>

MaxRead == 2

ReaderIds == {1, 2}

\* the content blocks of assistant lines of every shape: text blocks, a text
\* block without text, thinking, a tool_use and its tool_result
MixedBlocks ==
    {[type |-> "text", text |-> "hello"], [type |-> "text", text |-> "bye"],
     [type |-> "text"], [type |-> "thinking", thinking |-> "plan\nmore"],
     ToolUse("u1", "Bash", [command |-> "ls"]), ToolResult("u1")}

MaxBlocks == 3

MaxAssistants == 2

AssistantLines ==
    {Assistant(blocks) : blocks \in UNION {[1..n -> MixedBlocks] : n \in 0..MaxBlocks}}

\* Codex lines around the answer: agent_message items in every phase, one
\* without text, another item, and the lines of threads and turns
AnswerValues ==
    << [type |-> "item.started", item |-> [type |-> "agent_message", text |-> "draft"]],
       [type |-> "item.updated", item |-> [type |-> "agent_message", text |-> "answer"]],
       [type |-> "item.completed", item |-> [type |-> "agent_message", text |-> "final"]],
       [type |-> "item.completed", item |-> [type |-> "agent_message"]],
       [type |-> "item.completed",
        item |-> [type |-> "reasoning", id |-> "r1", text |-> "thought"]],
       [type |-> "thread.started", thread_id |-> "t1"],
       [type |-> "turn.started"],
       [type |-> "turn.completed"],
       [type |-> "turn.failed", error |-> [message |-> "boom"]] >>

\* lines of a known type that lack the field their branch needs, and a
\* system line that is not the init line
PartialValues ==
    << [type |-> "error"],
       [type |-> "item.completed"],
       [type |-> "system", subtype |-> "init"],
       [type |-> "system", subtype |-> "status", session_id |-> "s2"] >>

ParserValues == ClaudeValues \o CodexValues \o <<[type |-> "ping"], EmptyMap>>

\* every reader starts from AgentParser::new() and has read nothing
InitReaders ==
    readers = [parsers |-> [k \in ReaderIds |-> AgentParser_new],
               fed |-> [k \in ReaderIds |-> <<>>],
               emitted |-> [k \in ReaderIds |-> <<>>]]

InitParser ==
    /\ parser = AgentParser_new
    /\ fed = <<>>
    /\ emitted = <<>>
    /\ InitReaders

\* One call of AgentParser::parse_value
ParseValue(value) ==
    /\ Len(fed) < MaxFed
    /\ \E r \in {parse_value(parser, value)} :
           /\ parser' = r.state
           /\ emitted' = Append(emitted, r.events)
    /\ fed' = Append(fed, value)
    /\ UNCHANGED readers

(***************************************************************************)
(* Event Normalizer: two sessions, each read by its own task with its own  *)
(* parser, their lines arriving in any interleaving                        *)
(***************************************************************************)
\* the parser object session k's reader feeds: each reader constructs its
\* own with AgentParser::new() and no other task holds a reference to it
ParserOf_Shared(k) == 1

ParserOf(k) == k

\* the reader of session k gets one line and gives it to its parser
ReadLine(k, value) ==
    /\ Len(readers.fed[k]) < MaxRead
    /\ \E r \in {parse_value(readers.parsers[ParserOf(k)], value)} :
           readers' = [parsers |-> [readers.parsers EXCEPT ![ParserOf(k)] = r.state],
                       fed |-> [readers.fed EXCEPT ![k] = Append(@, value)],
                       emitted |-> [readers.emitted EXCEPT ![k] = Append(@, r.events)]]
    /\ UNCHANGED <<parser, fed, emitted>>

NextReaders ==
    /\ \E k \in ReaderIds : \E i \in DOMAIN ReaderValues :
           ReadLine(k, ReaderValues[i])
    /\ UNCHANGED <<coreVars, daemonVars>>

(***************************************************************************)
(* Workspace Lifecycle: one registered repository, its worktrees and the   *)
(* workspaces table                                                        *)
(***************************************************************************)
MaxRows == 2

\* the registered repository (repos row) all workspaces here belong to
RepoId == "r1"
DefaultBranch == "main"

\* caller inputs of workspace_create
NameArgs == {None, Some("a")}
BranchArgs == {None, Some("feat/b")}
BaseArgs == {None, Some("ghost")}

\* the step of an operation that fails in a call ("none": every step works)
CreateFailures == {"none", "mkdir", "worktree_add", "insert", "insert_and_cleanup"}
ArchiveFailures == {"none", "sidecar", "status", "worktree_remove", "prune", "update"}

\* a subset of CITIES
CITIES == {"almaty"}

\* branch.split('/').last(), tabulated on BranchArgs
branch_leaf(branch) == IF branch = "feat/b" THEN "b" ELSE branch

\* safe_dir_name: the names of the input domain are already lower-case
\* [a-z0-9._-] and come back unchanged
safe_dir_name(name) == IF name = "" THEN "repo" ELSE name

\* the names auto_workspace_name may return: an unused city, or the
\* ws-<id8> fallback once every one of the 200 draws hit a used name
auto_workspace_name(used) ==
    (CITIES \ used) \cup (IF CITIES \cap used = {} THEN {} ELSE {"ws-0a1b2c3d"})

\* for _ in 0..200, scaled down
MaxDraws == 2

\* two of CITIES
CityTokens == {"almaty", "zurich"}

\* the first 8 characters of Uuid::new_v4()
Id8s == {"0a1b2c3d", "9f8e7d6c"}

\* the directory names of a repository's rows
UsedNames == SUBSET (CityTokens \cup {"ws-0a1b2c3d", "a"})

\* auto_workspace_name for the rows' names, the cities that choose() draws
\* in the iterations of the loop (each draw is made from the whole list)
\* and the id of the fallback: the name returned and the draws made
auto_workspace_name_drawn(used, draws, id8) ==
    LET hits == {k \in DOMAIN draws :
                    /\ safe_dir_name(draws[k]) # ""
                    /\ safe_dir_name(draws[k]) \notin used}
        first == CHOOSE k \in hits : \A j \in hits : k <= j
    IN  IF hits # {}
        THEN [name |-> safe_dir_name(draws[first]), draws |-> first]
        ELSE [name |-> "ws-" \o id8, draws |-> Len(draws)]

AutoWorkspaceName(used, draws, id8) ==
    /\ pure' = [op |-> "auto_workspace_name", used |-> used, drawn |-> draws,
                id8 |-> id8,
                returned |-> auto_workspace_name_drawn(used, draws, id8)]
    /\ UNCHANGED <<rows, dirs, worktrees, branches, dirty, sidecar, coreResult,
                   storeVars, parserVars, daemonVars>>

NextNames ==
    \E used \in UsedNames, draws \in [1..MaxDraws -> CityTokens], id8 \in Id8s :
        AutoWorkspaceName(used, draws, id8)

\* home.join("workspaces").join(repo_dir).join(name)
workspace_path(name) == "workspaces/repo-" \o RepoId \o "/" \o name

RowIds == DOMAIN rows

\* faulty variant: only the directory name is unique
InsertConflicts_DirOnly(name, branch) ==
    \E i \in RowIds :
        rows[i].repository_id = RepoId /\ rows[i].directory_name = name

\* UNIQUE(repository_id, directory_name) and UNIQUE(repository_id, branch)
InsertConflicts(name, branch) ==
    \E i \in RowIds :
        /\ rows[i].repository_id = RepoId
        /\ (rows[i].directory_name = name \/ rows[i].branch = branch)

\* git refuses to check a branch out twice (the main worktree holds the
\* default branch) and refuses a path it still has registered
WorktreeAddRefused(path, branch) ==
    \/ branch = DefaultBranch
    \/ \E q \in DOMAIN worktrees : worktrees[q] = branch
    \/ path \in DOMAIN worktrees

InitCore ==
    /\ rows = <<>>
    /\ dirs = {}
    /\ worktrees = EmptyMap
    /\ branches = {DefaultBranch}
    /\ dirty = {}
    /\ sidecar = [ignored |-> FALSE, files |-> {}]
    /\ pure = [op |-> "none"]
    /\ coreResult = [op |-> "none"]

CreateError(msg) == [op |-> "create", ok |-> FALSE, error |-> msg]

\* a result together with the git commands and SQL statements the call ran,
\* in their order
Ran(result, steps) == result @@ [steps |-> steps]

WorktreeAdd == "git worktree add"
InsertRow == "INSERT INTO workspaces"
WorktreeRemoveForce == "git worktree remove --force"

\* faulty variant: the insert error is returned at once
OnInsertError_Return(cleaned) == [steps |-> <<>>, removed |-> FALSE]

\* if let Err(err) = insert: the removal is run and its outcome ignored
OnInsertError(cleaned) == [steps |-> <<WorktreeRemoveForce>>, removed |-> cleaned]

\* workspace_create once name and branch are derived
CreateAt(name, branch, base_ref, fail) ==
    LET path == workspace_path(name)
        added == /\ fail # "worktree_add"
                 /\ ~(branch \in branches /\ WorktreeAddRefused(path, branch))
                 /\ path \notin DOMAIN worktrees
        inserted == /\ fail \notin {"insert", "insert_and_cleanup"}
                    /\ ~InsertConflicts(name, branch)
        cleaned == OnInsertError(fail # "insert_and_cleanup").removed
        row == [id |-> "w" \o ToString(Len(rows) + 1), repository_id |-> RepoId,
                directory_name |-> name, path |-> path, branch |-> branch,
                base_branch |-> base_ref, state |-> "ready"]
    IN  IF path \in dirs
        THEN /\ coreResult' = Ran(CreateError("workspace path already exists"), <<>>)
             /\ UNCHANGED <<rows, dirs, worktrees, branches, dirty>>
        ELSE IF fail = "mkdir"
        THEN /\ coreResult' = Ran(CreateError("fs"), <<>>)
             /\ UNCHANGED <<rows, dirs, worktrees, branches, dirty>>
        ELSE IF ~added
        THEN /\ coreResult' = Ran(CreateError("git worktree add"), <<WorktreeAdd>>)
             /\ UNCHANGED <<rows, dirs, worktrees, branches, dirty>>
        ELSE IF inserted
        THEN /\ rows' = Append(rows, row)
             /\ dirs' = dirs \cup {path}
             /\ worktrees' = Insert(worktrees, path, branch)
             /\ branches' = branches \cup {branch}
             /\ coreResult' = Ran([op |-> "create", ok |-> TRUE, id |-> row.id],
                                  <<WorktreeAdd, InsertRow>>)
             /\ UNCHANGED dirty
        ELSE \* the insert failed: git worktree remove --force, best effort
             /\ branches' = branches \cup {branch}
             /\ dirs' = IF cleaned THEN dirs ELSE dirs \cup {path}
             /\ worktrees' = IF cleaned THEN worktrees
                             ELSE Insert(worktrees, path, branch)
             /\ coreResult' = Ran(CreateError(IF fail \in {"insert", "insert_and_cleanup"}
                                              THEN "db"
                                              ELSE "db: UNIQUE constraint failed"),
                                  <<WorktreeAdd, InsertRow>>
                                     \o OnInsertError(fail # "insert_and_cleanup").steps)
             /\ UNCHANGED <<rows, dirty>>

workspace_create(name, base, branch, fail) ==
    LET base_branch == UnwrapOr(base, DefaultBranch)
        used == {rows[i].directory_name : i \in RowIds}
        names == IF IsSome(name) THEN {name[1]}
                 ELSE IF IsSome(branch) THEN {safe_dir_name(branch_leaf(branch[1]))}
                 ELSE auto_workspace_name(used)
    IN  /\ Len(rows) < MaxRows
        /\ IF base_branch \notin branches
           THEN /\ coreResult' = Ran(CreateError("base branch not found"), <<>>)
                /\ UNCHANGED <<rows, dirs, worktrees, branches, dirty>>
           ELSE \E n \in names :
                    CreateAt(n, UnwrapOr(branch, n), base_branch, fail)
        /\ UNCHANGED <<sidecar, pure, parserVars, daemonVars, storeVars>>

ArchiveError(msg) == [op |-> "archive", ok |-> FALSE, error |-> msg]

\* git worktree prune: forget worktrees whose directory is gone
Pruned(wt, existing) == [q \in (DOMAIN wt) \cap existing |-> wt[q]]

\* faulty variant: the worktree is never required to be clean
CleanRequired_Never(force) == FALSE

\* if !force { git status --porcelain --untracked-files=all ... }
CleanRequired(force) == ~force

\* session.json, written by session_write, and chat.md, written by
\* chat_append
SidecarFiles == {"session.json", "chat.md"}

\* git status --porcelain --untracked-files=all in a working copy: the
\* modified and untracked files that no ignore rule covers
git_status(path) ==
    (IF path \in dirty THEN {"files"} ELSE {})
        \cup (IF sidecar.ignored THEN {}
              ELSE {".conductor-app/" \o f[2] : f \in {g \in sidecar.files : g[1] = path}})

\* workspace_archive for the row the reference resolved to
workspace_archive(i, force, fail) ==
    LET path == rows[i].path
        present == path \in dirs
        refused == present /\ CleanRequired(force) /\ git_status(path) # {}
        dirsAfter == dirs \ {path}
        wtAfter == IF fail = "prune" THEN Remove(worktrees, path)
                   ELSE Pruned(Remove(worktrees, path), dirsAfter)
        message0 == IF ~present THEN "workspace path already removed"
                    ELSE IF fail = "sidecar"
                         THEN "warning: failed to archive session data"
                    ELSE "archived"
        message == IF fail = "prune" THEN message0 \o " (prune failed)" ELSE message0
    IN  /\ i \in RowIds
        /\ IF present /\ CleanRequired(force) /\ fail = "status"
           THEN /\ coreResult' = ArchiveError("git status")
                /\ UNCHANGED <<rows, dirs, worktrees, dirty, sidecar>>
           ELSE IF refused
           THEN /\ coreResult' = ArchiveError("workspace has uncommitted changes")
                /\ UNCHANGED <<rows, dirs, worktrees, dirty, sidecar>>
           ELSE IF present /\ fail = "worktree_remove"
           THEN /\ coreResult' = ArchiveError("git worktree remove")
                /\ UNCHANGED <<rows, dirs, worktrees, dirty, sidecar>>
           ELSE /\ dirs' = dirsAfter
                /\ worktrees' = wtAfter
                /\ dirty' = dirty \ {path}
                /\ sidecar' = [sidecar EXCEPT !.files = {g \in @ : g[1] # path}]
                /\ IF fail = "update"
                   THEN /\ coreResult' = ArchiveError("db")
                        /\ UNCHANGED rows
                   ELSE /\ rows' = [rows EXCEPT ![i].state = "archived"]
                        /\ coreResult' = [op |-> "archive", ok |-> TRUE,
                                          id |-> rows[i].id, removed |-> present,
                                          message |-> message]
        /\ UNCHANGED <<branches, pure, parserVars, daemonVars, storeVars>>

\* the agent or the user edits files in a working copy
EditFiles(path) ==
    /\ path \in dirs
    /\ path \notin dirty
    /\ dirty' = dirty \cup {path}
    /\ UNCHANGED <<rows, dirs, worktrees, branches, sidecar, pure, coreResult, parserVars,
                   daemonVars, storeVars>>

\* session_write (by session_create or session_upsert_resume_id) or
\* chat_append in a working copy: ensure_conductor_app, then the file
SidecarWrite(path, file) ==
    /\ path \in dirs
    /\ <<path, file>> \notin sidecar.files
    /\ sidecar' = [sidecar EXCEPT !.files = @ \cup {<<path, file>>}]
    /\ UNCHANGED <<rows, dirs, worktrees, branches, dirty, pure, coreResult,
                   parserVars, daemonVars, storeVars>>

\* creates and archives of workspaces in which sessions are kept
NextSidecar ==
    \/ \E name \in NameArgs, branch \in BranchArgs :
          workspace_create(name, None, branch, "none")
    \/ \E i \in RowIds, force \in BOOLEAN : workspace_archive(i, force, "none")
    \/ \E path \in dirs : EditFiles(path)
    \/ \E path \in dirs, file \in SidecarFiles : SidecarWrite(path, file)

NextCore ==
    \/ \E name \in NameArgs, base \in BaseArgs, branch \in BranchArgs,
          fail \in CreateFailures : workspace_create(name, base, branch, fail)
    \/ \E i \in RowIds, force \in BOOLEAN, fail \in ArchiveFailures :
          workspace_archive(i, force, fail)
    \/ \E path \in dirs : EditFiles(path)

(***************************************************************************)
(* Workspace Lifecycle: reading a file of a workspace and its diff         *)
(***************************************************************************)
Platforms == {"unix", "windows"}

\* a path string is a sequence of these pieces
PathTokens == {" ", "/", "\\", "..", "C:", "a"}

MaxPathLen == 3

PathArgs == UNION {[1..n -> PathTokens] : n \in 0..MaxPathLen}

\* what File::read finds at a path that passed the check
FileKinds == {"missing", "binary", "text"}

InitStore(platform) ==
    /\ build = platform
    /\ fileCall = [op |-> "none"]
    /\ lookup = [op |-> "none"]

\* str::trim
RECURSIVE trim_start(_)
trim_start(s) == IF s # <<>> /\ Head(s) = " " THEN trim_start(Tail(s)) ELSE s

RECURSIVE trim(_)
trim(s) ==
    IF s # <<>> /\ s[Len(s)] = " " THEN trim(SubSeq(s, 1, Len(s) - 1))
    ELSE trim_start(s)

\* std::path::is_separator of the platform
Separators(platform) == IF platform = "windows" THEN {"/", "\\"} ELSE {"/"}

\* the non-empty runs of s between separators; cur is the run being read
RECURSIVE Segments(_, _, _)
Segments(s, seps, cur) ==
    IF s = <<>> THEN (IF cur = <<>> THEN <<>> ELSE <<cur>>)
    ELSE IF Head(s) \in seps
         THEN (IF cur = <<>> THEN <<>> ELSE <<cur>>) \o Segments(Tail(s), seps, <<>>)
         ELSE Segments(Tail(s), seps, Append(cur, Head(s)))

\* Path::components: the kinds of the components of s, in order. A prefix
\* (a drive, or a path that starts with two separators) exists on windows
\* only; what follows a two-separator prefix is not looked at
components(platform, s) ==
    LET seps == Separators(platform)
        drive == platform = "windows" /\ s # <<>> /\ s[1] = "C:"
        unc == platform = "windows" /\ Len(s) >= 2 /\ s[1] \in seps /\ s[2] \in seps
        body == IF drive THEN Tail(s) ELSE IF unc THEN <<>> ELSE s
        segs == Segments(body, seps, <<>>)
    IN  (IF drive \/ unc THEN <<"Prefix">> ELSE <<>>)
            \o (IF body # <<>> /\ body[1] \in seps THEN <<"RootDir">> ELSE <<>>)
            \o [i \in DOMAIN segs |-> IF segs[i] = <<"..">> THEN "ParentDir" ELSE "Normal"]

\* faulty variant: a parent-directory component is let through
Rejected_NoParent == {"RootDir", "Prefix"}

\* the component kinds that make a path not relative to the workspace
Rejected == {"ParentDir", "RootDir", "Prefix"}

safe_workspace_relpath(platform, path) ==
    LET trimmed == trim(path)
        comps == components(platform, trimmed)
    IN  IF trimmed = <<>> THEN [ok |-> FALSE, error |-> "file path is required"]
        ELSE IF \E i \in DOMAIN comps : comps[i] \in Rejected
             THEN [ok |-> FALSE, error |-> "file path must be relative"]
        ELSE [ok |-> TRUE, rel |-> trimmed]

FileError(call, msg, effects) ==
    call @@ [ok |-> FALSE, error |-> msg, effects |-> effects]

\* workspace_file_content; ws is the row the reference resolved to, or 0
\* when get_workspace failed; file is what is found at the joined path
workspace_file_content(ws, file_path, file) ==
    LET call == [op |-> "content", ws |-> ws, path |-> file_path]
        rel == safe_workspace_relpath(build, file_path)
        read == <<[effect |-> "fs::read", dir |-> rows[ws].path, rel |-> rel.rel]>>
    IN  /\ fileCall' =
               IF ws \notin RowIds THEN FileError(call, "workspace not found", <<>>)
               ELSE IF ~rel.ok THEN FileError(call, rel.error, <<>>)
               ELSE IF file = "missing" THEN FileError(call, "fs", read)
               ELSE IF file = "binary"
                    THEN FileError(call, "file is not valid utf-8", read)
               ELSE call @@ [ok |-> TRUE, effects |-> read]
        /\ UNCHANGED <<treeVars, build,
                       lookup, store, migrated, migrators, sessionVars, parserVars, daemonVars>>

\* workspace_file_diff; base_found is whether resolve_base_ref finds the
\* workspace's base branch in the repository
workspace_file_diff(ws, file_path, base_found) ==
    LET call == [op |-> "diff", ws |-> ws, path |-> file_path]
        rel == safe_workspace_relpath(build, file_path)
        rev_parse == <<[effect |-> "git rev-parse", dir |-> "repo_root"]>>
        diff == <<[effect |-> "git diff", dir |-> rows[ws].path, rel |-> rel.rel]>>
    IN  /\ fileCall' =
               IF ws \notin RowIds THEN FileError(call, "workspace not found", <<>>)
               ELSE IF ~rel.ok THEN FileError(call, rel.error, <<>>)
               ELSE IF ~base_found
                    THEN FileError(call, "base branch not found", rev_parse)
               ELSE call @@ [ok |-> TRUE, effects |-> rev_parse \o diff]
        /\ UNCHANGED <<treeVars, build,
                       lookup, store, migrated, migrators, sessionVars, parserVars, daemonVars>>

\* A call reads the registry and its arguments and writes nothing but its
\* own outcome, so no call depends on an earlier one: each behaviour
\* creates workspaces and then makes one call
NextFiles ==
    \/ fileCall.op = "none" /\ workspace_create(None, None, None, "none")
    \/ /\ fileCall.op = "none"
       /\ \E ws \in RowIds \cup {0}, path \in PathArgs, file \in FileKinds :
              workspace_file_content(ws, path, file)
    \/ /\ fileCall.op = "none"
       /\ \E ws \in RowIds \cup {0}, path \in PathArgs, base_found \in BOOLEAN :
              workspace_file_diff(ws, path, base_found)

\* git check-ref-format for refs/heads/<name>: no empty name, no space,
\* backslash, colon or "..", no "/" at either end and no "//"
valid_branch_name(name) ==
    /\ name # <<>>
    /\ \A i \in DOMAIN name : name[i] \in {"a", "/"}
    /\ name[1] # "/" /\ name[Len(name)] # "/"
    /\ \A i \in 1..(Len(name) - 1) : ~(name[i] = "/" /\ name[i + 1] = "/")

\* where a path leads from the directory it is joined to: depth is the
\* number of directories below it, left is set once the path has gone above
\* it
RECURSIVE Walk(_, _, _)
Walk(kinds, depth, left) ==
    IF kinds = <<>> THEN [depth |-> depth, left |-> left]
    ELSE IF Head(kinds) = "ParentDir"
         THEN Walk(Tail(kinds), depth - 1, left \/ depth = 0)
         ELSE Walk(Tail(kinds), depth + 1, left)

\* PathBuf::join: a name with a root or a prefix replaces the path it is
\* joined to; any other name is appended as it is, ".." components included
path_join(platform, name) ==
    LET kinds == components(platform, name)
    IN  IF \E i \in DOMAIN kinds : kinds[i] \in {"RootDir", "Prefix"}
        THEN [replaced |-> TRUE, at |-> Walk(<<>>, 0, TRUE)]
        ELSE [replaced |-> FALSE, at |-> Walk(kinds, 0, FALSE)]

\* workspace_create up to the working copy, for a name given by the caller:
\* home.join("workspaces").join(repo_dir).join(&name), and git worktree add
\* on the branch given or named after the name; made tells whether git
\* accepts the branch
WorkspacePath(name, branch) ==
    /\ pure' = [op |-> "workspace_path", name |-> name, branch |-> branch,
                made |-> IsSome(branch) \/ valid_branch_name(name),
                joined |-> path_join(build, name)]
    /\ UNCHANGED <<rows, dirs, worktrees, branches, dirty, sidecar, coreResult,
                   storeVars, parserVars, daemonVars>>

NextPaths == \E name \in PathArgs, branch \in BranchArgs : WorkspacePath(name, branch)

(***************************************************************************)
(* Workspace Lifecycle: resolving a repository or workspace reference      *)
(***************************************************************************)
\* ids are Uuid::new_v4().to_string(): lower-case hex, one length; here
\* IdLen characters of IdChars. A reference or a name is any string
IdChars == {"a", "b"}
IdLen == 2
RefChars == {"a", "b", "A", "%", "_"}
MaxRefLen == 2
MaxEntities == 2

Ids == [1..IdLen -> IdChars]

RepoNames == {<<"a">>, <<"b", "b">>, <<"A">>}

RefArgs == UNION {[1..n -> RefChars] : n \in 0..MaxRefLen}

\* the repos tables: id is the primary key and name has a unique index
RepoTables ==
    {t \in SUBSET [id : Ids, name : RepoNames] :
        /\ Cardinality(t) <= MaxEntities
        /\ \A x, y \in t : x # y => (x.id # y.id /\ x.name # y.name)}

\* the workspaces tables, as far as a lookup reads them
WorkspaceTables == {t \in SUBSET [id : Ids] : Cardinality(t) <= MaxEntities}

\* ASCII lower case, as SQLite LIKE folds it
ascii_lower(c) == IF c = "A" THEN "a" ELSE c

\* SQLite `s LIKE pattern`: % is any run of characters, _ is any one
\* character, every other character matches itself without regard to
\* ASCII case
RECURSIVE like(_, _)
like(pattern, s) ==
    IF pattern = <<>> THEN s = <<>>
    ELSE IF Head(pattern) = "%"
         THEN \E k \in 0..Len(s) : like(Tail(pattern), SubSeq(s, k + 1, Len(s)))
    ELSE IF s = <<>> THEN FALSE
    ELSE /\ Head(pattern) = "_" \/ ascii_lower(Head(pattern)) = ascii_lower(Head(s))
         /\ like(Tail(pattern), Tail(s))

\* WHERE id LIKE format!("{ref}%")
id_like(table, ref) == {x \in table : like(ref \o <<"%">>, x.id)}

\* rows.len() == 1, > 1, or 0
OneOf(found, kind) ==
    IF Cardinality(found) = 1 THEN [ok |-> TRUE, id |-> (CHOOSE x \in found : TRUE).id]
    ELSE IF Cardinality(found) > 1 THEN [ok |-> FALSE, error |-> "ambiguous " \o kind]
    ELSE [ok |-> FALSE, error |-> kind \o " not found"]

get_repo(table, ref) ==
    LET by_id == {x \in table : x.id = ref}
        by_name == {x \in table : x.name = ref}
    IN  IF by_id # {} THEN OneOf(by_id, "repo")
        ELSE IF by_name # {} THEN OneOf(by_name, "repo")
        ELSE OneOf(id_like(table, ref), "repo")

get_workspace(table, ref) ==
    LET by_id == {x \in table : x.id = ref}
    IN  IF by_id # {} THEN OneOf(by_id, "workspace")
        ELSE OneOf(id_like(table, ref), "workspace")

\* one lookup against one table
Lookup(kind, table, ref) ==
    /\ lookup.op = "none"
    /\ lookup' = [op |-> kind, table |-> table, ref |-> ref,
                  result |-> IF kind = "repo" THEN get_repo(table, ref)
                             ELSE get_workspace(table, ref)]
    /\ UNCHANGED <<treeVars, build,
                   fileCall, store, migrated, migrators, sessionVars, parserVars, daemonVars>>

NextRefs ==
    \/ \E table \in RepoTables, ref \in RefArgs : Lookup("repo", table, ref)
    \/ \E table \in WorkspaceTables, ref \in RefArgs : Lookup("workspace", table, ref)

(***************************************************************************)
(* Workspace Lifecycle: the schema of the registry database                *)
(***************************************************************************)
SCHEMA_VERSION == 3

MaxMigrations == 3

MaxStoredRows == 2

\* PRAGMA user_version as found: the versions the program wrote, and one
\* below and one above them
StoredVersions == (0 - 1)..(SCHEMA_VERSION + 1)

WorkspaceStates == {"ready", "archived", "error"}

\* the state column as found: before version 3 it had no CHECK
StoredStates == WorkspaceStates \cup {"creating"}

RepoIndexes == {"idx_repos_name", "idx_repos_root_path"}

WorkspaceIndexes == {"idx_workspaces_repo_dir", "idx_workspaces_repo_branch"}

\* what migrate leaves behind
CurrentSchema ==
    [version |-> SCHEMA_VERSION, tables |-> {"repos", "workspaces"},
     indexes |-> RepoIndexes \cup WorkspaceIndexes, states |-> <<>>]

\* the database files migrate may find: a new file (version 0, empty), and
\* files with both tables, any of the indexes migrate would add, and rows
StoredSchemas ==
    {[version |-> 0, tables |-> {}, indexes |-> {}, states |-> <<>>]}
        \cup UNION {
               {[version |-> v, tables |-> {"repos", "workspaces"}, indexes |-> ix,
                 states |-> st] :
                   ix \in {{}, RepoIndexes, RepoIndexes \cup WorkspaceIndexes},
                   st \in UNION {[1..n -> IF v = SCHEMA_VERSION THEN WorkspaceStates
                                           ELSE StoredStates] : n \in 0..MaxStoredRows}} :
               v \in StoredVersions \ {0}}

MigrateFailures == {"none", "begin", "repo_indexes", "batch", "commit"}

\* the processes that open the database file at the same time
Procs == {1, 2}

InitSchema(s) ==
    /\ store = s
    /\ migrated = [op |-> "none", n |-> 0]
    /\ migrators = [writer |-> 0, acquired |-> 0, applied |-> 0, found |-> s,
                    proc |-> [p \in Procs |-> [pc |-> "idle"]]]

\* faulty variant: what the failed transaction had done stays
rollback_Keep(before, partial) == partial

\* the Transaction is dropped without commit: everything done on it is undone
rollback(before, partial) == before

\* faulty variant: a state the table does not know becomes ready
checked_state_Ready(state) == IF state \in WorkspaceStates THEN state ELSE "ready"

\* CASE WHEN state IN ('ready', 'archived', 'error') THEN state ELSE 'error'
checked_state(state) == IF state \in WorkspaceStates THEN state ELSE "error"

\* the transaction of migrate on the database file; fail is the statement
\* that fails, if any
migrate_tx(fail) ==
    LET version == store.version
        created == [store EXCEPT !.tables = @ \cup {"repos", "workspaces"},
                                 !.indexes = @ \cup RepoIndexes \cup WorkspaceIndexes,
                                 !.version = 3]
        indexed == IF version = 1
                   THEN [store EXCEPT !.indexes = @ \cup RepoIndexes]
                   ELSE store
        rebuilt == [indexed EXCEPT
                      !.states = [i \in DOMAIN @ |-> checked_state(@[i])],
                      !.indexes = @ \cup WorkspaceIndexes,
                      !.version = 3]
        Ok(s) == /\ store' = s
                 /\ migrated' = [op |-> "migrate", ok |-> TRUE, from |-> version,
                                 n |-> migrated.n + 1]
        Err(msg, s) == /\ store' = s
                       /\ migrated' = [op |-> "migrate", ok |-> FALSE, error |-> msg,
                                       from |-> version, n |-> migrated.n + 1]
    IN  /\ migrated.n < MaxMigrations
        /\ IF version = SCHEMA_VERSION THEN Ok(store)
           ELSE IF fail = "begin" THEN Err("db", store)
           ELSE IF version = 0
                THEN IF fail = "batch" THEN Err("db", rollback(store, store))
                     ELSE IF fail = "commit" THEN Err("db", rollback(store, created))
                     ELSE Ok(created)
           ELSE IF version = 1 /\ fail = "repo_indexes"
                THEN Err("db", rollback(store, store))
           ELSE IF version \in {1, 2}
                THEN IF fail = "batch" THEN Err("db", rollback(store, indexed))
                     ELSE IF fail = "commit" THEN Err("db", rollback(store, rebuilt))
                     ELSE Ok(rebuilt)
           ELSE Err("unsupported DB schema version", rollback(store, store))
        /\ UNCHANGED <<build, fileCall, lookup, migrators, sessionVars, parserVars,
                       daemonVars>>

\* migrate on a file whose rows no other operation of the model looks at
migrate(fail) == migrate_tx(fail) /\ UNCHANGED treeVars

\* the rows of the workspaces table of a file as found: their state column
\* is states, and the working copy of a row is there when the row is ready
StoredRows(states) ==
    [i \in DOMAIN states |->
        [id |-> "w" \o ToString(i), repository_id |-> RepoId,
         directory_name |-> "old" \o ToString(i),
         path |-> "workspaces/repo-" \o RepoId \o "/old" \o ToString(i),
         branch |-> "old" \o ToString(i), base_branch |-> DefaultBranch,
         state |-> states[i]]]

\* connect: migrate on the file that holds the rows; the rebuild of the
\* workspaces table rewrites the state column of every row
connect(fail) ==
    /\ migrate_tx(fail)
    /\ rows' = IF store' = store THEN rows
               ELSE [i \in DOMAIN rows |-> [rows[i] EXCEPT !.state = store'.states[i]]]
    /\ UNCHANGED <<dirs, worktrees, branches, dirty, sidecar, pure, coreResult>>

\* the files that hold both tables, at a version migrate accepts
OpenedSchemas ==
    {s \in StoredSchemas :
        /\ s.version \in 1..SCHEMA_VERSION
        /\ s.indexes = IF s.version = 1 THEN {}
                       ELSE IF s.version = 2 THEN RepoIndexes
                       ELSE RepoIndexes \cup WorkspaceIndexes}

\* every operation opens the file with connect, which migrates first: the
\* workspace operations run on a file at the current version
NextStates ==
    \/ \E fail \in MigrateFailures : connect(fail)
    \/ /\ store.version = SCHEMA_VERSION
       /\ \E name \in NameArgs, branch \in BranchArgs, fail \in {"none", "insert"} :
              workspace_create(name, None, branch, fail)
    \/ /\ store.version = SCHEMA_VERSION
       /\ \E i \in RowIds, force \in BOOLEAN, fail \in {"none", "update"} :
              workspace_archive(i, force, fail)
    \/ \E path \in dirs : EditFiles(path)

\* the statements migrate runs for the version it acts on, none of them
\* failing: the batch of version 0, or the indexes of version 1 and the
\* rebuild of the workspaces table
migration(version, s) ==
    IF version = 0
    THEN [s EXCEPT !.tables = @ \cup {"repos", "workspaces"},
                   !.indexes = @ \cup RepoIndexes \cup WorkspaceIndexes,
                   !.version = 3]
    ELSE [s EXCEPT !.states = [i \in DOMAIN @ |-> checked_state(@[i])],
                   !.indexes = @ \cup (IF version = 1 THEN RepoIndexes ELSE {})
                                 \cup WorkspaceIndexes,
                   !.version = 3]

\* a transaction that trusts the version read before it began
tx_version_Stale(seen, stored) == seen

\* tx.query_row("PRAGMA user_version"): the version as stored, read inside
\* the transaction
tx_version(seen, stored) == stored

MigratorOk(p, changed) == [pc |-> "done", ok |-> TRUE, changed |-> changed]

MigratorErr(p, msg) == [pc |-> "done", ok |-> FALSE, error |-> msg, changed |-> FALSE]

RaceUnchanged ==
    UNCHANGED <<treeVars, build, fileCall,
                lookup, migrated, sessionVars, parserVars, daemonVars>>

\* migrate of process p: PRAGMA user_version on the connection; committed
\* data only
MigrateRead(p) ==
    /\ migrators.proc[p].pc = "idle"
    /\ migrators' = [migrators EXCEPT !.proc[p] =
                        IF store.version = SCHEMA_VERSION
                        THEN MigratorOk(p, FALSE) @@ [order |-> 0]
                        ELSE [pc |-> "begin", seen |-> store.version]]
    /\ UNCHANGED store /\ RaceUnchanged

\* BEGIN IMMEDIATE takes the write lock when no other connection has it
MigrateBegin(p) ==
    /\ migrators.proc[p].pc = "begin"
    /\ migrators.writer = 0
    /\ migrators' = [migrators EXCEPT !.writer = p, !.acquired = @ + 1,
                                      !.proc[p] = [pc |-> "in_tx", seen |-> @.seen,
                                                   order |-> migrators.acquired + 1]]
    /\ UNCHANGED store /\ RaceUnchanged

\* BEGIN IMMEDIATE while another connection has the write lock: the busy
\* handler sleeps and retries, and gives up after the busy timeout
MigrateBusy(p) ==
    /\ migrators.proc[p].pc = "begin"
    /\ migrators.writer # 0
    /\ migrators' = [migrators EXCEPT !.proc[p] =
                        MigratorErr(p, "db: database is locked") @@ [order |-> 0]]
    /\ UNCHANGED store /\ RaceUnchanged

\* inside the transaction: the version is read again, and the statements of
\* that version run on the transaction
MigrateInTx(p) ==
    /\ migrators.proc[p].pc = "in_tx"
    /\ \E version \in {tx_version(migrators.proc[p].seen, store.version)} :
         IF version = SCHEMA_VERSION
         THEN migrators' = [migrators EXCEPT !.proc[p] =
                              [pc |-> "commit", order |-> @.order, reread |-> version,
                               changed |-> FALSE, pending |-> store]]
         ELSE IF version \in {0, 1, 2}
         THEN migrators' = [migrators EXCEPT !.applied = @ + 1, !.proc[p] =
                              [pc |-> "commit", order |-> @.order, reread |-> version,
                               changed |-> TRUE, pending |-> migration(version, store)]]
         ELSE migrators' = [migrators EXCEPT !.writer = 0, !.proc[p] =
                              MigratorErr(p, "unsupported DB schema version")
                                  @@ [order |-> @.order, reread |-> version]]
    /\ UNCHANGED store /\ RaceUnchanged

\* tx.commit(): what the transaction did becomes the database, and the
\* write lock is free
MigrateCommit(p) ==
    /\ migrators.proc[p].pc = "commit"
    /\ store' = migrators.proc[p].pending
    /\ migrators' = [migrators EXCEPT !.writer = 0, !.proc[p] =
                        MigratorOk(p, @.changed) @@ [order |-> @.order,
                                                     reread |-> @.reread]]
    /\ RaceUnchanged

NextRace ==
    \/ \E p \in Procs : MigrateRead(p)
    \/ \E p \in Procs : MigrateBegin(p)
    \/ \E p \in Procs : MigrateBusy(p)
    \/ \E p \in Procs : MigrateInTx(p)
    \/ \E p \in Procs : MigrateCommit(p)

NextMigrate == \E fail \in MigrateFailures : migrate(fail)

(***************************************************************************)
(* Sessions: .conductor-app/session.json of one workspace, written by the  *)
(* session_* functions of the core crate, which the daemon serves one RPC  *)
(* at a time, and by the desktop's session_upsert_resume_id command, which *)
(* is a sequence of such RPCs.                                             *)
(***************************************************************************)
AgentIds == {"claude", "codex"}
ResumeIds == {"r1", "r2"}
MaxNow == 4        \* writes of session.json in a behaviour
MaxUpserts == 2    \* desktop session_upsert_resume_id commands in a behaviour

InitSession ==
    /\ session = [file |-> None, now |-> 0]
    /\ sessionCall = [op |-> "none"]
    /\ upserts = <<>>

\* SessionState
SessionState(agent_id, resume_id, started_at, updated_at) ==
    [agent_id |-> agent_id, resume_id |-> resume_id,
     started_at |-> started_at, updated_at |-> updated_at]

\* session_read: Ok(None) when session.json does not exist
session_read == session.file

\* session_write replaces session.json; Utc::now() has moved on by the
\* next call
session_write(s) == session' = [file |-> Some(s), now |-> session.now + 1]

\* what session_create writes and returns
Created(agent_id) == SessionState(agent_id, None, session.now, session.now)

\* what session_set_resume_id writes and returns for the session it read
Resumed(s, resume_id) ==
    [s EXCEPT !.resume_id = Some(resume_id), !.updated_at = session.now]

\* the outcome of a call that returned Ok(s) / Err(msg)
SessionOk(call, s) == call @@ [ok |-> TRUE, found |-> session.file, left |-> Some(s)]
SessionErr(call, msg) ==
    call @@ [ok |-> FALSE, error |-> msg, found |-> session.file,
             left |-> session.file]

\* session_set_resume_id
session_set_resume_id(resume_id) ==
    LET call == [op |-> "set_resume_id", resume_id |-> resume_id]
    IN  /\ session.now < MaxNow
        /\ IF IsSome(session_read)
           THEN LET s == Resumed(session_read[1], resume_id)
                IN  /\ session_write(s)
                    /\ sessionCall' = SessionOk(call, s)
           ELSE /\ sessionCall' = SessionErr(call, "no session found")
                /\ UNCHANGED session
        /\ UNCHANGED <<treeVars, build,
                       fileCall, lookup, store, migrated, migrators, upserts, parserVars,
                       daemonVars>>

\* session_upsert_resume_id of the core crate
session_upsert_resume_id(agent_id, resume_id) ==
    LET call == [op |-> "upsert_resume_id", agent_id |-> agent_id,
                 resume_id |-> resume_id]
        s == IF IsSome(session_read)
             THEN Resumed(session_read[1], resume_id)
             ELSE SessionState(agent_id, Some(resume_id), session.now, session.now)
    IN  /\ session.now < MaxNow
        /\ session_write(s)
        /\ sessionCall' = SessionOk(call, s)
        /\ UNCHANGED <<treeVars, build,
                       fileCall, lookup, store, migrated, migrators, upserts, parserVars,
                       daemonVars>>

\* ---- the desktop command session_upsert_resume_id: each await is one RPC
\* of the daemon, and commands of the webview run side by side
UpsertIds == 1..MaxUpserts

desktop_upsert_call(agent_id, resume_id) ==
    /\ Len(upserts) < MaxUpserts
    /\ upserts' = Append(upserts, [agent_id |-> agent_id, resume_id |-> resume_id,
                                   at |-> "read", existing |-> None,
                                   returned |-> None])
    /\ UNCHANGED <<treeVars, build,
                   fileCall, lookup, store, migrated, migrators, session, sessionCall,
                   parserVars, daemonVars>>

\* let existing = session_read(workspace_path.clone()).await?
desktop_upsert_read(u) ==
    /\ u \in DOMAIN upserts
    /\ upserts[u].at = "read"
    /\ upserts' = [upserts EXCEPT ![u].existing = session_read,
                                  ![u].at = IF IsSome(session_read) THEN "set"
                                            ELSE "create"]
    /\ UNCHANGED <<treeVars, build,
                   fileCall, lookup, store, migrated, migrators, session, sessionCall,
                   parserVars, daemonVars>>

\* session_create(workspace_path.clone(), agent_id).await?, which the daemon
\* answers with session_create of the core crate
desktop_upsert_create(u) ==
    /\ u \in DOMAIN upserts
    /\ upserts[u].at = "create"
    /\ session.now < MaxNow
    /\ session_write(Created(upserts[u].agent_id))
    /\ upserts' = [upserts EXCEPT ![u].at = "set"]
    /\ UNCHANGED <<treeVars, build,
                   fileCall, lookup, store, migrated, migrators, sessionCall, parserVars,
                   daemonVars>>

\* session_set_resume_id(workspace_path, resume_id).await
desktop_upsert_set(u) ==
    /\ u \in DOMAIN upserts
    /\ upserts[u].at = "set"
    /\ session.now < MaxNow
    /\ IF IsSome(session_read)
       THEN LET s == Resumed(session_read[1], upserts[u].resume_id)
            IN  /\ session_write(s)
                /\ upserts' = [upserts EXCEPT ![u].at = "done",
                                              ![u].returned = Some(s)]
       ELSE /\ upserts' = [upserts EXCEPT ![u].at = "failed"]
            /\ UNCHANGED session
    /\ UNCHANGED <<treeVars, build,
                   fileCall, lookup, store, migrated, migrators, sessionCall, parserVars,
                   daemonVars>>

\* session_set_resume_id and session_upsert_resume_id of the core crate, and
\* the desktop's upsert commands over the daemon's RPCs; every session.json
\* of a behaviour is written by one of them
NextSession ==
    \/ \E resume_id \in ResumeIds : session_set_resume_id(resume_id)
    \/ \E agent_id \in AgentIds, resume_id \in ResumeIds :
          session_upsert_resume_id(agent_id, resume_id)
    \/ \E agent_id \in AgentIds, resume_id \in ResumeIds :
          desktop_upsert_call(agent_id, resume_id)
    \/ \E u \in UpsertIds : desktop_upsert_read(u)
    \/ \E u \in UpsertIds : desktop_upsert_create(u)
    \/ \E u \in UpsertIds : desktop_upsert_set(u)

(***************************************************************************)
(* Agent Supervisor: the active-agent map, the runs with their children    *)
(* and pump tasks, the broadcast channels and their subscribers            *)
(***************************************************************************)
MaxRuns == 2
MaxLines == 1
MaxAttach == 1
\* broadcast::channel(256), scaled down
ChannelCapacity == 2

Sessions == {"s1", "s2"}
RequestEngines == {"codex", "bogus"}
KnownEngines == {"claude", "claude-code", "codex", "gemini"}

\* stdout lines of a child: a JSON line, a line that is no JSON, and bytes
\* that are no UTF-8 (next_line returns Err)
DaemonLines ==
    << [json |-> [type |-> "item.completed",
                  item |-> [type |-> "command_execution", id |-> "c1",
                            command |-> "ls", status |-> "completed",
                            exit_code |-> 0]]],
       [text |-> "not json"],
       [invalid_utf8 |-> TRUE] >>

\* stdout lines of one child whose events depend on the lines before them
PumpLines ==
    [k \in DOMAIN ReaderValues |-> [json |-> ReaderValues[k]]]
        \o <<[json |-> [type |-> "ping"]], [text |-> "not json"],
             [invalid_utf8 |-> TRUE]>>

\* lines a child prints in a behaviour of the one-session model
MaxStdout == 3

\* serde_json::from_str::<Value>(&line)
from_str(line) == IF "json" \in DOMAIN line THEN Some(line.json) ELSE None

\* Value::to_string(): the serialised text of a JSON value
to_string(json) == [json |-> json]

AgentEvent(session_id, event_type, payload) ==
    [session_id |-> session_id, event_type |-> event_type, payload |-> payload]

RunIds == DOMAIN runs
SubIds == DOMAIN subs

LockFree == lock.op = "free"

\* a handle taken out of the map and owned by the code that removed it
TakeHandle(run) == [run EXCEPT !.handle = "held"]

\* faulty variant: a drop that leaves the child alone
DropHandle_NoKill(run) == [run EXCEPT !.handle = "dropped"]

\* Drop for ActiveAgentHandle: start_kill on the child
DropHandle(run) == [run EXCEPT !.handle = "dropped", !.killed = TRUE]

\* child.kill(): start_kill, then the caller awaits the exit
KillChild(run) == [run EXCEPT !.killed = TRUE]

\* a handle whose sender outlives the handle
SendersAlive_HandleLeaked(run) ==
    \/ run.pc # "streaming"
    \/ run.pump # "done"
    \/ run.handle # "none"

\* the senders of a run's channel: the handler's tx, the pump's tx_clone and
\* the handle's sender
SendersAlive(run) ==
    \/ run.pc # "streaming"
    \/ run.pump # "done"
    \/ run.handle \in {"map", "held"}

\* tx.send for each event of a list; a send never waits for a receiver
Broadcast(ch, events) == ch \o events

\* a receiver that starts at the head of the channel
subscribe_FromStart(ch) == 0

\* Sender::subscribe: the receiver starts at the tail of the channel
subscribe(ch) == Len(ch)

NewSubscriber(r, sid, kind) ==
    [run |-> r, session_id |-> sid, kind |-> kind, at |-> Len(chan[r]),
     pos |-> subscribe(chan[r]), state |-> "open", received |-> <<>>]

\* HashMap::insert and HashMap::remove: the new map and the value that was
\* stored under the key
hashmap_insert(m, k, v) ==
    [map |-> Insert(m, k, v), value |-> IF k \in DOMAIN m THEN Some(m[k]) ELSE None]

hashmap_remove(m, k) ==
    [map |-> Remove(m, k), value |-> IF k \in DOMAIN m THEN Some(m[k]) ELSE None]

\* a lookup where the removal belongs
stop_remove_Get(m, sid) ==
    [map |-> m, value |-> IF sid \in DOMAIN m THEN Some(m[sid]) ELSE None]

\* agents.remove(&req.session_id) of stop_agent
stop_remove(m, sid) == hashmap_remove(m, sid)

\* a teardown that leaves the map alone
pump_remove_Skip(m, sid) == [map |-> m, value |-> None]

\* agents.remove(&session_id_clone) of the pump task
pump_remove(m, sid) == hashmap_remove(m, sid)

\* the answer of list_active_agents
list_active_agents ==
    {[session_id |-> sid, engine |-> runs[agents[sid]].engine] : sid \in DOMAIN agents}

InitDaemon ==
    /\ agents = EmptyMap
    /\ runs = <<>>
    /\ chan = <<>>
    /\ subs = <<>>
    /\ lock = [op |-> "free"]
    /\ reply = [op |-> "none"]
    /\ exitTimer = FALSE
    /\ exited = FALSE

Reply(op, sid, status) == [op |-> op, session_id |-> sid, status |-> status]

\* the pipe the daemon made for the child's stderr: what it holds before a
\* write blocks (64 KiB on Linux), in chunks
PipeCapacity == 2

\* what a child may have to say on stderr before it is done, in chunks
StderrLengths == 0..(PipeCapacity + 1)

\* a spawn that leaves a process behind when it reports an error
spawn_Orphan(run, ok) == <<run>>

\* cmd.spawn(): the child processes it adds, none when it returns Err
spawn(run, ok) == IF ok THEN <<run>> ELSE <<>>

\* run_agent up to the spawned child: the check under the lock, the engine
\* match and the spawn; the child has stderr_len chunks to write to stderr
\* before it ends
RunAgentSpawn(sid, engine, spawn_ok, stderr_len) ==
    /\ ~exited /\ LockFree
    /\ Len(runs) < MaxRuns
    /\ IF sid \in DOMAIN agents
       THEN /\ reply' = Reply("run", sid, "already_exists")
            /\ UNCHANGED <<runs, chan>>
       ELSE IF engine \notin KnownEngines
       THEN /\ reply' = Reply("run", sid, "invalid_argument")
            /\ UNCHANGED <<runs, chan>>
       ELSE LET child == spawn([sid |-> sid, engine |-> engine, pc |-> "spawned",
                                child |-> "running", killed |-> FALSE,
                                handle |-> "none", pump |-> "none", nread |-> 0,
                                stdout |-> <<>>, parser |-> AgentParser_new,
                                errpipe |-> 0, errleft |-> stderr_len], spawn_ok)
            IN /\ runs' = runs \o child
               /\ chan' = chan \o [k \in DOMAIN child |-> <<>>]
               /\ IF spawn_ok
                  THEN UNCHANGED reply
                  ELSE reply' = Reply("run", sid, "internal")
    /\ UNCHANGED <<agents, subs, lock, exitTimer, exited, parserVars, coreVars>>

\* run_agent for a child that writes nothing to stderr
RunAgentStart(sid, engine, spawn_ok) == RunAgentSpawn(sid, engine, spawn_ok, 0)

\* run_agent: insert the handle under the lock and spawn the pump task
RunAgentRegister(r) ==
    /\ ~exited /\ LockFree
    /\ runs[r].pc = "spawned"
    /\ \E res \in {hashmap_insert(agents, runs[r].sid, r)} :
         /\ agents' = res.map
         /\ runs' = [q \in RunIds |->
                       IF q = r
                       THEN [runs[q] EXCEPT !.pc = "registered", !.handle = "map",
                                            !.pump = "start"]
                       ELSE IF res.value = Some(q)
                       THEN DropHandle(TakeHandle(runs[q]))
                       ELSE runs[q]]
    /\ UNCHANGED <<chan, subs, lock, reply, exitTimer, exited, parserVars, coreVars>>

\* run_agent: subscribe and return the stream
RunAgentSubscribe(r) ==
    /\ ~exited
    /\ runs[r].pc = "registered"
    /\ subs' = Append(subs, NewSubscriber(r, runs[r].sid, "run"))
    /\ runs' = [runs EXCEPT ![r].pc = "streaming"]
    /\ reply' = Reply("run", runs[r].sid, "ok")
    /\ UNCHANGED <<agents, chan, lock, exitTimer, exited, parserVars, coreVars>>

\* pump task: the synthetic started event
PumpStarted(r) ==
    /\ ~exited
    /\ runs[r].pump = "start"
    /\ chan' = [chan EXCEPT ![r] = Broadcast(@, <<AgentEvent(runs[r].sid, "started",
                                  to_string([engine |-> runs[r].engine]))>>)]
    /\ runs' = [runs EXCEPT ![r].pump = "read"]
    /\ UNCHANGED <<agents, subs, lock, reply, exitTimer, exited, parserVars, coreVars>>

\* the events of one parsed line, as AgentEvents
LineEvents(sid, events) ==
    [k \in DOMAIN events |-> AgentEvent(sid, "event", to_string(events[k]))]

\* the completed sentinel
CompletedEvent(sid) == AgentEvent(sid, "completed", to_string(EmptyMap))

\* pump task: one iteration of the line loop, for a line the running child
\* prints; a read error leaves the loop. printed is the record of the
\* child's output after the line
PumpLine(r, line, printed) ==
    /\ ~exited
    /\ runs[r].pump = "read"
    /\ runs[r].child = "running"
    /\ IF "invalid_utf8" \in DOMAIN line
       THEN /\ chan' = [chan EXCEPT ![r] = Broadcast(@, <<CompletedEvent(runs[r].sid)>>)]
            /\ runs' = [runs EXCEPT ![r].pump = "teardown",
                                    ![r].stdout = printed]
       ELSE \E v \in {from_str(line)} :
              IF ~IsSome(v)
              THEN /\ runs' = [runs EXCEPT ![r].nread = @ + 1,
                                           ![r].stdout = printed]
                   /\ UNCHANGED chan
              ELSE \E res \in {parse_value(runs[r].parser, v[1])} :
                     /\ runs' = [runs EXCEPT ![r].nread = @ + 1,
                                             ![r].stdout = printed,
                                             ![r].parser = res.state]
                     /\ chan' = [chan EXCEPT ![r] =
                                   Broadcast(@, LineEvents(runs[r].sid,
                                                           UnwrapOr(res.events, <<>>)))]
    /\ UNCHANGED <<agents, subs, lock, reply, exitTimer, exited, parserVars, coreVars>>

\* the same, keeping no record of the output
PumpReadLine(r, line) ==
    runs[r].nread < MaxLines /\ PumpLine(r, line, runs[r].stdout)

\* the same, keeping the record
PumpPrintedLine(r, line) ==
    Len(runs[r].stdout) < MaxStdout /\ PumpLine(r, line, Append(runs[r].stdout, line))

\* the child prints a line after the pump task has left its line loop:
\* nothing reads it
ChildPrint(r, line) ==
    /\ runs[r].child = "running"
    /\ runs[r].pump \in {"teardown", "done"}
    /\ Len(runs[r].stdout) < MaxStdout
    /\ runs' = [runs EXCEPT ![r].stdout = Append(@, line)]
    /\ UNCHANGED <<agents, chan, subs, lock, reply, exitTimer, exited, parserVars, coreVars>>

\* pump task: next_line returns Ok(None); the completed sentinel
PumpEOF(r) ==
    /\ ~exited
    /\ runs[r].pump = "read"
    /\ runs[r].child = "dead"
    /\ chan' = [chan EXCEPT ![r] = Broadcast(@, <<CompletedEvent(runs[r].sid)>>)]
    /\ runs' = [runs EXCEPT ![r].pump = "teardown"]
    /\ UNCHANGED <<agents, subs, lock, reply, exitTimer, exited, parserVars, coreVars>>

\* the pump task of a run ends
PumpDone(run, self) == IF self THEN [run EXCEPT !.pump = "done"] ELSE run

\* pump task: remove the entry of its session id under the lock; the handle
\* found there is dropped
PumpTeardown(r) ==
    /\ ~exited /\ LockFree
    /\ runs[r].pump = "teardown"
    /\ \E res \in {pump_remove(agents, runs[r].sid)} :
         /\ agents' = res.map
         /\ runs' = [q \in RunIds |->
                       IF res.value = Some(q)
                       THEN DropHandle(TakeHandle(PumpDone(runs[q], q = r)))
                       ELSE PumpDone(runs[q], q = r)]
    /\ UNCHANGED <<chan, subs, lock, reply, exitTimer, exited, parserVars, coreVars>>

\* the child writes a chunk to stderr: the write returns when the pipe has
\* room, and nothing in the daemon reads the pipe
ChildWriteStderr(r) ==
    /\ runs[r].child = "running"
    /\ runs[r].errleft > 0
    /\ runs[r].errpipe < PipeCapacity
    /\ runs' = [runs EXCEPT ![r].errpipe = @ + 1, ![r].errleft = @ - 1]
    /\ UNCHANGED <<agents, chan, subs, lock, reply, exitTimer, exited, parserVars, coreVars>>

\* the child process ends, by the kill signal or by itself once it has
\* written what it had to
ChildExit(r) ==
    /\ runs[r].child = "running"
    /\ runs[r].killed \/ runs[r].errleft = 0
    /\ runs' = [runs EXCEPT ![r].child = "dead"]
    /\ UNCHANGED <<agents, chan, subs, lock, reply, exitTimer, exited, parserVars, coreVars>>

\* the receiver is more than the capacity behind: recv returns Lagged
Lagged(ch, pos) == Len(ch) - pos > ChannelCapacity

\* rx.recv() of a subscriber stream: Lagged and Closed end the stream
SubRecv(s) ==
    /\ ~exited
    /\ subs[s].state = "open"
    /\ \E ch \in {chan[subs[s].run]} :
         IF Lagged(ch, subs[s].pos)
         THEN subs' = [subs EXCEPT ![s].state = "lagged"]
         ELSE IF subs[s].pos < Len(ch)
         THEN subs' = [subs EXCEPT ![s].pos = @ + 1,
                                   ![s].received = Append(@, ch[subs[s].pos + 1])]
         ELSE /\ ~SendersAlive(runs[subs[s].run])
              /\ subs' = [subs EXCEPT ![s].state = "closed"]
    /\ UNCHANGED <<agents, runs, chan, lock, reply, exitTimer, exited, parserVars, coreVars>>

Attached == {s \in SubIds : subs[s].kind = "attach"}

attach_agent(sid) ==
    /\ ~exited /\ LockFree
    /\ Cardinality(Attached) < MaxAttach
    /\ IF sid \in DOMAIN agents
       THEN /\ subs' = Append(subs, NewSubscriber(agents[sid], sid, "attach"))
            /\ reply' = Reply("attach", sid, "ok")
       ELSE /\ reply' = Reply("attach", sid, "not_found")
            /\ UNCHANGED subs
    /\ UNCHANGED <<agents, runs, chan, lock, exitTimer, exited, parserVars, coreVars>>

\* stop_agent up to the await of child.kill(): the lock stays held
stop_agent(sid) ==
    /\ ~exited /\ LockFree
    /\ \E res \in {stop_remove(agents, sid)} :
         /\ agents' = res.map
         /\ IF IsSome(res.value)
            THEN /\ runs' = [runs EXCEPT ![res.value[1]] = KillChild(TakeHandle(@))]
                 /\ lock' = [op |-> "stop", run |-> res.value[1], session_id |-> sid]
                 /\ UNCHANGED reply
            ELSE /\ reply' = Reply("stop", sid, "not_found")
                 /\ UNCHANGED <<runs, lock>>
    /\ UNCHANGED <<chan, subs, exitTimer, exited, parserVars, coreVars>>

\* stop_agent: the child has exited; the handle and the lock guard go
StopAgentEnd ==
    /\ ~exited
    /\ lock.op = "stop"
    /\ runs[lock.run].child = "dead"
    /\ runs' = [runs EXCEPT ![lock.run] = DropHandle(@)]
    /\ lock' = [op |-> "free"]
    /\ reply' = Reply("stop", lock.session_id, "ok")
    /\ UNCHANGED <<agents, chan, subs, exitTimer, exited, parserVars, coreVars>>

Draining == {r \in RunIds : lock.op = "shutdown" /\ runs[r].handle = "held"}

\* shutdown: take the lock and drain the map (one Shutdown request per
\* daemon process)
ShutdownBegin ==
    /\ ~exited /\ LockFree
    /\ ~exitTimer
    /\ agents' = EmptyMap
    /\ runs' = [q \in RunIds |->
                  IF \E sid \in DOMAIN agents : agents[sid] = q
                  THEN TakeHandle(runs[q]) ELSE runs[q]]
    /\ lock' = [op |-> "shutdown", run |-> 0]
    /\ UNCHANGED <<chan, subs, reply, exitTimer, exited, parserVars, coreVars>>

\* child.kill().await of the current iteration, if any, has returned
KillReturned == IF lock.run = 0 THEN TRUE ELSE runs[lock.run].child = "dead"

\* the handle of the previous iteration, whose child.kill() has returned
ShutdownReaped(q) ==
    IF q = lock.run THEN DropHandle(runs[q]) ELSE runs[q]

\* shutdown: the next handle of the drain; child.kill() issues the signal
ShutdownKill(r) ==
    /\ ~exited
    /\ lock.op = "shutdown"
    /\ KillReturned
    /\ r \in Draining /\ r # lock.run
    /\ runs' = [q \in RunIds |->
                  IF q = r THEN KillChild(runs[q]) ELSE ShutdownReaped(q)]
    /\ lock' = [lock EXCEPT !.run = r]
    /\ UNCHANGED <<agents, chan, subs, reply, exitTimer, exited, parserVars, coreVars>>

\* shutdown: the drain is done; release the lock, start the exit task, reply
ShutdownEnd ==
    /\ ~exited
    /\ lock.op = "shutdown"
    /\ KillReturned
    /\ Draining \subseteq {lock.run}
    /\ runs' = [q \in RunIds |-> ShutdownReaped(q)]
    /\ lock' = [op |-> "free"]
    /\ exitTimer' = TRUE
    /\ reply' = [op |-> "shutdown", status |-> "ok"]
    /\ UNCHANGED <<agents, chan, subs, exited, parserVars, coreVars>>

\* the exit task: std::process::exit(0) after the delay
Exit ==
    /\ exitTimer /\ ~exited
    /\ exited' = TRUE
    /\ UNCHANGED <<agents, runs, chan, subs, lock, reply, exitTimer, parserVars, coreVars>>

\* the supervisor under run, stop and shutdown requests; clients do not
\* read their streams
NextSupervisor ==
    \/ \E engine \in RequestEngines, spawn_ok \in BOOLEAN :
          RunAgentStart("s1", engine, spawn_ok)
    \/ \E r \in RunIds : RunAgentRegister(r)
    \/ \E r \in RunIds : RunAgentSubscribe(r)
    \/ \E r \in RunIds : PumpStarted(r)
    \/ \E r \in RunIds, i \in DOMAIN DaemonLines : PumpReadLine(r, DaemonLines[i])
    \/ \E r \in RunIds : PumpEOF(r)
    \/ \E r \in RunIds : PumpTeardown(r)
    \/ \E r \in RunIds : ChildExit(r)
    \/ \E sid \in Sessions : stop_agent(sid)
    \/ StopAgentEnd
    \/ ShutdownBegin
    \/ \E r \in RunIds : ShutdownKill(r)
    \/ ShutdownEnd
    \/ Exit

\* one session and what its pump task makes of the child's output, line by
\* line
NextPump ==
    \/ runs = <<>> /\ RunAgentStart("s1", "claude", TRUE)
    \/ \E r \in RunIds : RunAgentRegister(r)
    \/ \E r \in RunIds : RunAgentSubscribe(r)
    \/ \E r \in RunIds : PumpStarted(r)
    \/ \E r \in RunIds, i \in DOMAIN PumpLines : PumpPrintedLine(r, PumpLines[i])
    \/ \E r \in RunIds, i \in DOMAIN PumpLines : ChildPrint(r, PumpLines[i])
    \/ \E r \in RunIds : PumpEOF(r)
    \/ \E r \in RunIds : PumpTeardown(r)
    \/ \E r \in RunIds : ChildExit(r)

\* one session whose child writes to stderr as well as stdout and is left
\* to end by itself
NextPipes ==
    \/ \E n \in StderrLengths : runs = <<>> /\ RunAgentSpawn("s1", "codex", TRUE, n)
    \/ \E r \in RunIds : RunAgentRegister(r)
    \/ \E r \in RunIds : RunAgentSubscribe(r)
    \/ \E r \in RunIds : PumpStarted(r)
    \/ \E r \in RunIds, i \in DOMAIN DaemonLines : PumpReadLine(r, DaemonLines[i])
    \/ \E r \in RunIds : PumpEOF(r)
    \/ \E r \in RunIds : PumpTeardown(r)
    \/ \E r \in RunIds : ChildWriteStderr(r)
    \/ \E r \in RunIds : ChildExit(r)
    \/ \E s \in SubIds : SubRecv(s)

\* no run_agent call is between its check and its insert
NoRunInFlight == \A q \in RunIds : runs[q].pc # "spawned"

\* one session id that is run, stopped and run again; the RunAgent calls do
\* not overlap
NextRestart ==
    \/ NoRunInFlight /\ RunAgentStart("s1", "codex", TRUE)
    \/ \E r \in RunIds : RunAgentRegister(r)
    \/ \E r \in RunIds : RunAgentSubscribe(r)
    \/ \E r \in RunIds : PumpStarted(r)
    \/ \E r \in RunIds : PumpReadLine(r, DaemonLines[1])
    \/ \E r \in RunIds : PumpEOF(r)
    \/ \E r \in RunIds : PumpTeardown(r)
    \/ \E r \in RunIds : ChildExit(r)
    \/ stop_agent("s1")
    \/ StopAgentEnd

\* the session ids are interchangeable: the first run is the one of s1
StreamSessions == IF runs = <<>> THEN {"s1"} ELSE Sessions

\* the sessions' event streams: runs whose children print JSON lines, their
\* pump tasks and the subscribers
NextStream ==
    \/ \E sid \in StreamSessions : RunAgentStart(sid, "codex", TRUE)
    \/ \E r \in RunIds : RunAgentRegister(r)
    \/ \E r \in RunIds : RunAgentSubscribe(r)
    \/ \E r \in RunIds : PumpStarted(r)
    \/ \E r \in RunIds : PumpReadLine(r, DaemonLines[1])
    \/ \E r \in RunIds : PumpEOF(r)
    \/ \E r \in RunIds : PumpTeardown(r)
    \/ \E r \in RunIds : ChildExit(r)
    \/ \E s \in SubIds : SubRecv(s)
    \/ \E sid \in Sessions : attach_agent(sid)

Init ==
    /\ InitParser /\ InitCore /\ InitDaemon /\ InitStore("unix")
    /\ InitSchema(CurrentSchema) /\ InitSession

\* the database file was left by any version of the program
InitAnySchema ==
    /\ InitParser /\ InitCore /\ InitDaemon /\ InitStore("unix")
    /\ \E s \in StoredSchemas : InitSchema(s)
    /\ InitSession

\* the core crate builds for either platform
InitAnyBuild ==
    /\ InitParser /\ InitCore /\ InitDaemon /\ InitSchema(CurrentSchema)
    /\ InitSession
    /\ \E platform \in Platforms : InitStore(platform)

NextParser ==
    /\ \E i \in DOMAIN ParserValues : ParseValue(ParserValues[i])
    /\ UNCHANGED <<coreVars, daemonVars>>

SpecParser == Init /\ [][NextParser]_vars

\* one parser fed assistant lines
NextAssistant ==
    /\ Len(fed) < MaxAssistants
    /\ \E value \in AssistantLines : ParseValue(value)
    /\ UNCHANGED <<coreVars, daemonVars>>

SpecAssistant == Init /\ [][NextAssistant]_vars

EngineValues == ParserValues \o PartialValues

\* one parser fed the lines of both engines and the partial ones
NextEngines ==
    /\ \E i \in DOMAIN EngineValues : ParseValue(EngineValues[i])
    /\ UNCHANGED <<coreVars, daemonVars>>

SpecEngines == Init /\ [][NextEngines]_vars

\* one parser fed the Codex lines around the answer
NextAnswers ==
    /\ \E i \in DOMAIN AnswerValues : ParseValue(AnswerValues[i])
    /\ UNCHANGED <<coreVars, daemonVars>>

SpecAnswers == Init /\ [][NextAnswers]_vars

NextActions ==
    /\ \E i \in DOMAIN ActionValues : ParseValue(ActionValues[i])
    /\ UNCHANGED <<coreVars, daemonVars>>

SpecActions == Init /\ [][NextActions]_vars

SpecReaders == Init /\ [][NextReaders]_vars

SpecCore == Init /\ [][NextCore]_vars

\* the repository may or may not have an ignore rule for .conductor-app/:
\* the program writes none
InitSidecar ==
    /\ InitParser /\ InitDaemon /\ InitStore("unix")
    /\ InitSchema(CurrentSchema) /\ InitSession
    /\ rows = <<>> /\ dirs = {} /\ worktrees = EmptyMap
    /\ branches = {DefaultBranch} /\ dirty = {}
    /\ coreResult = [op |-> "none"] /\ pure = [op |-> "none"]
    /\ \E ignored \in BOOLEAN : sidecar = [ignored |-> ignored, files |-> {}]

SpecSidecar == InitSidecar /\ [][NextSidecar]_vars

SpecPaths == InitAnyBuild /\ [][NextPaths]_vars

SpecNames == Init /\ [][NextNames]_vars

SpecFiles == InitAnyBuild /\ [][NextFiles]_vars

SpecRefs == Init /\ [][NextRefs]_vars

\* a database file with rows, and the working copies of its ready rows
InitOpened ==
    /\ InitParser /\ InitDaemon /\ InitStore("unix") /\ InitSession
    /\ \E s \in OpenedSchemas :
          /\ InitSchema(s)
          /\ rows = StoredRows(s.states)
    /\ dirs = {rows[i].path : i \in {k \in DOMAIN rows : rows[k].state = "ready"}}
    /\ worktrees = [q \in dirs |->
                       rows[CHOOSE i \in DOMAIN rows : rows[i].path = q].branch]
    /\ branches = {DefaultBranch} \cup {rows[i].branch : i \in DOMAIN rows}
    /\ dirty = {}
    /\ sidecar = [ignored |-> FALSE, files |-> {}]
    /\ pure = [op |-> "none"]
    /\ coreResult = [op |-> "none"]

SpecStates == InitOpened /\ [][NextStates]_vars

SpecMigrate == InitAnySchema /\ [][NextMigrate]_vars

\* the database file was left at a version below the current one
InitOldSchema ==
    /\ InitParser /\ InitCore /\ InitDaemon /\ InitStore("unix")
    /\ \E s \in StoredSchemas : s.version \in 0..(SCHEMA_VERSION - 1) /\ InitSchema(s)
    /\ InitSession

SpecRace == InitOldSchema /\ [][NextRace]_vars

SpecSession == Init /\ [][NextSession]_vars

SpecSupervisor == Init /\ [][NextSupervisor]_vars

SpecStream == Init /\ [][NextStream]_vars

\* the three agent RPCs on both sessions with every failing input, and the
\* steps of the sessions they start
NextRpc ==
    \/ \E sid \in Sessions, engine \in RequestEngines, spawn_ok \in BOOLEAN :
          RunAgentStart(sid, engine, spawn_ok)
    \/ \E r \in RunIds : RunAgentRegister(r)
    \/ \E r \in RunIds : RunAgentSubscribe(r)
    \/ \E r \in RunIds : PumpStarted(r)
    \/ \E r \in RunIds : PumpEOF(r)
    \/ \E r \in RunIds : PumpTeardown(r)
    \/ \E r \in RunIds : ChildExit(r)
    \/ \E sid \in Sessions : attach_agent(sid)
    \/ \E sid \in Sessions : stop_agent(sid)
    \/ StopAgentEnd

SpecRpc == Init /\ [][NextRpc]_vars

\* runs of one session id with their subscribers, ended by the child's exit
\* or by StopAgent
NextEnded ==
    \/ NoRunInFlight /\ RunAgentStart("s1", "codex", TRUE)
    \/ \E r \in RunIds : RunAgentRegister(r)
    \/ \E r \in RunIds : RunAgentSubscribe(r)
    \/ \E r \in RunIds : PumpStarted(r)
    \/ \E r \in RunIds : PumpEOF(r)
    \/ \E r \in RunIds : PumpTeardown(r)
    \/ \E r \in RunIds : ChildExit(r)
    \/ \E s \in SubIds : SubRecv(s)
    \/ attach_agent("s1")
    \/ stop_agent("s1")
    \/ StopAgentEnd

SpecEnded == Init /\ [][NextEnded]_vars

SpecPump == Init /\ [][NextPump]_vars

SpecRestart == Init /\ [][NextRestart]_vars

\* a child that was sent the kill signal ends
KilledChildExit(r) == runs[r].killed /\ ChildExit(r)

\* the steps of one run_agent handler, of one pump task and of shutdown
HandlerStep(r) == r \in RunIds /\ (RunAgentRegister(r) \/ RunAgentSubscribe(r))

PumpStep(r) == r \in RunIds /\ (PumpStarted(r) \/ PumpEOF(r) \/ PumpTeardown(r))

ShutdownStep == (\E r \in RunIds : ShutdownKill(r)) \/ ShutdownEnd

\* tasks and handlers that are running make progress: the tokio runtime
\* schedules every ready task, the mutex is fair, a killed child ends and
\* the exit timer fires; requests, child output, a child's own exit and the
\* clients' reads are under no obligation
SupervisorFairness ==
    /\ \A r \in 1..MaxRuns :
          /\ WF_vars(HandlerStep(r))
          /\ WF_vars(PumpStep(r))
          /\ WF_vars(r \in RunIds /\ KilledChildExit(r))
    /\ WF_vars(StopAgentEnd)
    /\ WF_vars(ShutdownStep)
    /\ WF_vars(Exit)

LiveSupervisor == SpecSupervisor /\ SupervisorFairness

\* the subscribers a behaviour can have: one per run and the attached ones
MaxSubs == MaxRuns + MaxAttach

\* a client that keeps polling its stream
ClientStep(s) == s \in SubIds /\ SubRecv(s)

\* the runtime schedules handlers and pump tasks, and every client keeps
\* reading its stream
EndedFairness ==
    /\ SupervisorFairness
    /\ \A s \in 1..MaxSubs : WF_vars(ClientStep(s))

LiveEnded == SpecEnded /\ EndedFairness

\* a child that is not blocked goes on: it writes what it has to write and
\* then ends; the runtime schedules the handler and the pump task
PipesFairness ==
    \A r \in 1..MaxRuns :
        /\ WF_vars(HandlerStep(r))
        /\ WF_vars(PumpStep(r))
        /\ WF_vars(r \in RunIds /\ ChildWriteStderr(r))
        /\ WF_vars(r \in RunIds /\ ChildExit(r))

LivePipes == Init /\ [][NextPipes]_vars /\ PipesFairness

(***************************************************************************)
(* Event Normalizer: properties                                            *)
(***************************************************************************)
\* every event emitted so far, in emission order
AllEvents == Flatten([i \in DOMAIN emitted |-> UnwrapOr(emitted[i], <<>>)])

\* the content blocks of a value, when it is an assistant line with content
AssistantBlocks(value) ==
    IF /\ Get(value, "type") = Some("assistant")
       /\ "message" \in DOMAIN value
       /\ "content" \in DOMAIN value.message
    THEN value.message.content
    ELSE <<>>

\* every content block fed so far, in stream order
Blocks == Flatten([i \in DOMAIN fed |-> AssistantBlocks(fed[i])])

\* positions in the block stream bl of the tool_use blocks with id X
UsePos(bl, X) ==
    {i \in DOMAIN bl : bl[i].type = "tool_use" /\ Get(bl[i], "id") = Some(X)}

\* positions in the block stream bl of the tool_result blocks for X
ResPos(bl, X) ==
    {i \in DOMAIN bl : bl[i].type = "tool_result" /\ Get(bl[i], "tool_use_id") = Some(X)}

\* the Claude agent.action events of phase `phase` with action.id = X
ClaudeActionsFor(events, X, phases) ==
    SelectSeq(events, LAMBDA e :
        /\ e.type = "agent.action"
        /\ e.engine = "claude"
        /\ e.action.id = X
        /\ e.phase \in phases)

BlockIsError(block) == Get(block, "is_error") = Some(TRUE)

\* one tool_use X at i, then one tool_result X at j; no other block with id X
MatchedPair(bl, X, i, j) ==
    /\ UsePos(bl, X) = {i}
    /\ ResPos(bl, X) = {j}
    /\ i < j

\* C8: a tool_use X followed by a tool_result X yields exactly one started
\* and then exactly one completed Claude action with id X, of the same kind
\* and title, and the completed one has ok = ~is_error (absent is_error = false)
C8_MatchedPairEvents ==
    \A bl \in {Blocks} : \A X \in ToolIds : \A i, j \in DOMAIN bl :
        MatchedPair(bl, X, i, j) =>
            \E ev \in {ClaudeActionsFor(AllEvents, X, {"started", "updated", "completed"})} :
                /\ Len(ev) = 2
                /\ ev[1].phase = "started"
                /\ ev[2].phase = "completed"
                /\ ev[1].action.id = X /\ ev[2].action.id = X
                /\ ev[1].action.kind = ev[2].action.kind
                /\ ev[1].action.title = ev[2].action.title
                /\ Get(ev[2], "ok") = Some(~BlockIsError(bl[j]))

C8_Witness ==
    \E bl \in {Blocks} : \E i, j \in DOMAIN bl :
        /\ MatchedPair(bl, "u1", i, j)
        /\ BlockIsError(bl[j])
        /\ \E ev \in {ClaudeActionsFor(AllEvents, "u1", {"completed"})} :
              Len(ev) = 1 /\ ev[1].ok = FALSE /\ ev[1].action.kind = "command"

\* a tool_use X is pending when block j is processed
PendingAt(bl, X, j) ==
    \E i \in UsePos(bl, X) : i < j /\ \A k \in ResPos(bl, X) : ~(i < k /\ k < j)

\* C9: every tool_result yields exactly one completed Claude action, and when
\* nothing is pending under its id the action is the fabricated one (id =
\* tool_use_id, kind tool, title tool); tool_use blocks yield started events
\* only, so an id with no tool_result has no completed Claude action
C9_UnmatchedBlocks ==
    \A bl \in {Blocks} : \A all \in {AllEvents} : \A X \in ToolIds :
        \E res \in {ResPos(bl, X)} :
        \E done \in {ClaudeActionsFor(all, X, {"completed"})} :
            /\ Len(done) = Cardinality(res)
            /\ Len(ClaudeActionsFor(all, X, {"started"})) = Cardinality(UsePos(bl, X))
            /\ \A j \in res :
                  ~PendingAt(bl, X, j) =>
                      \E e \in {done[Cardinality({k \in res : k <= j})]} :
                          /\ e.action.id = X
                          /\ e.action.kind = "tool"
                          /\ e.action.title = "tool"
                          /\ e.action.detail.tool_use_id = X

C9_Witness ==
    \E bl \in {Blocks} :
        /\ Len(fed) = MaxFed
        /\ \E j \in ResPos(bl, "u1") : ~PendingAt(bl, "u1", j)
        /\ UsePos(bl, "u2") # {} /\ ResPos(bl, "u2") = {}
        /\ Len(ClaudeActionsFor(AllEvents, "u2", {"started"})) = 1
        /\ ClaudeActionsFor(AllEvents, "u2", {"completed"}) = <<>>

IsThreadStarted(value) ==
    Get(value, "type") = Some("thread.started") /\ "thread_id" \in DOMAIN value

IsTurnCompleted(value) == Get(value, "type") = Some("turn.completed")

\* the agent.completed events among those returned for the j-th value
CompletedEventsAt(j) ==
    SelectSeq(UnwrapOr(emitted[j], <<>>), LAMBDA e : e.type = "agent.completed")

TurnCompletedResumes(i, j) ==
    \E done \in {CompletedEventsAt(j)} :
        /\ Len(done) = 1
        /\ done[1].engine = "codex"
        /\ Get(done[1], "resume") = Some(fed[i].thread_id)

\* C10 as stated: the next turn.completed after a thread.started carrying T
\* emits agent.completed with resume = T, whatever lines lie in between
C10_NextTurnCompletedResumes ==
    \A i, j \in DOMAIN fed :
        ( /\ i < j
          /\ IsThreadStarted(fed[i])
          /\ IsTurnCompleted(fed[j])
          /\ \A k \in DOMAIN fed : (i < k /\ k < j) => ~IsTurnCompleted(fed[k]) )
        => TurnCompletedResumes(i, j)

\* C10 amended: a turn.completed emits agent.completed{engine codex} with
\* resume = T for the latest thread.started carrying a thread_id before it
C10_LatestThreadResumes ==
    \A i, j \in DOMAIN fed :
        ( /\ i < j
          /\ IsThreadStarted(fed[i])
          /\ IsTurnCompleted(fed[j])
          /\ \A k \in DOMAIN fed : (i < k /\ k < j) => ~IsThreadStarted(fed[k]) )
        => TurnCompletedResumes(i, j)

C10_Witness ==
    /\ Len(fed) = 3
    /\ IsThreadStarted(fed[1])
    /\ ~IsThreadStarted(fed[2]) /\ ~IsTurnCompleted(fed[2])
    /\ IsTurnCompleted(fed[3])
    /\ TurnCompletedResumes(1, 3)

\* the action kinds of the event schema
ActionKinds ==
    {"turn", "command", "tool", "web_search", "file_change", "note",
     "warning", "todo", "subagent"}

KindsEmitted == {AllEvents[i].action.kind :
                    i \in {j \in DOMAIN AllEvents : AllEvents[j].type = "agent.action"}}

\* C13: every agent.action event emitted, by either engine, has its
\* action.kind in the fixed set of kinds
C13_ActionKindsFixed == KindsEmitted \subseteq ActionKinds

\* a completed Claude action that took its kind (subagent) from the pending
\* tool_use, after a Codex todo_list item was reported as a note
C13_Witness ==
    /\ \E i \in DOMAIN AllEvents :
           /\ AllEvents[i].type = "agent.action"
           /\ AllEvents[i].engine = "claude"
           /\ AllEvents[i].phase = "completed"
           /\ AllEvents[i].action.kind = "subagent"
    /\ \E i \in DOMAIN AllEvents :
           /\ AllEvents[i].type = "agent.action"
           /\ AllEvents[i].engine = "codex"
           /\ AllEvents[i].phase = "updated"
           /\ AllEvents[i].action.kind = "note"

\* the tool_use ids with no tool_result after their latest tool_use, over
\* the whole block stream bl
Unanswered(bl) == {X \in ToolIds : PendingAt(bl, X, Len(bl) + 1)}

\* the ids carried by the blocks of one kind in the block list bl
BlockIds(bl, type, key) ==
    {X \in ToolIds : \E i \in DOMAIN bl : bl[i].type = type /\ Get(bl[i], key) = Some(X)}

\* one parse_value step: keys enter the pending map only for the tool_use
\* blocks of the line, leave it only for its tool_result blocks, and the
\* entries of every other id stay as they were
PendingFrame ==
    fed' # fed =>
        \A bl \in {AssistantBlocks(fed'[Len(fed')])} :
        \A old \in {parser.claude.pending} : \A new \in {parser'.claude.pending} :
            /\ (DOMAIN new) \ (DOMAIN old) \subseteq BlockIds(bl, "tool_use", "id")
            /\ (DOMAIN old) \ (DOMAIN new) \subseteq BlockIds(bl, "tool_result", "tool_use_id")
            /\ \A X \in (DOMAIN old) \cap (DOMAIN new) :
                   X \notin BlockIds(bl, "tool_use", "id") => new[X] = old[X]

\* C12: the keys of the Claude pending map are exactly the tool_use ids
\* with no tool_result after their latest tool_use; only tool_use blocks
\* add an entry, only tool_result blocks of the same id remove one, and
\* every other line of either engine leaves the map as it was
C12_PendingKeys ==
    /\ [](DOMAIN parser.claude.pending = Unanswered(Blocks))
    /\ [][PendingFrame]_vars

\* u1 was used and answered, u2 was used and is the only pending entry
C12_Witness ==
    /\ DOMAIN parser.claude.pending = {"u2"}
    /\ UsePos(Blocks, "u1") # {}
    /\ ResPos(Blocks, "u1") # {}

\* a parser fed the lines `values` alone, starting from `p`: the events of
\* each line and the state it ends in
RECURSIVE RunAlone(_, _)
RunAlone(p, values) ==
    IF values = <<>> THEN [emitted |-> <<>>, state |-> p]
    ELSE Bind(parse_value(p, Head(values)), LAMBDA r :
            Bind(RunAlone(r.state, Tail(values)), LAMBDA rest :
                [emitted |-> <<r.events>> \o rest.emitted, state |-> rest.state]))

C1_ReadyRowHasWorktree ==
    \A i \in RowIds :
        rows[i].state # "archived" =>
            /\ rows[i].path \in dirs
            /\ rows[i].path \in DOMAIN worktrees
            /\ worktrees[rows[i].path] = rows[i].branch

\* an archive without force of row i, whose directory exists and holds
\* modified or untracked files
DirtyArchive(i, fail) ==
    /\ rows[i].path \in dirs
    /\ rows[i].path \in dirty
    /\ workspace_archive(i, FALSE, fail)

\* the row, the directory, the worktree and the edited files are as before
ArchiveChangedNothing ==
    /\ rows' = rows
    /\ dirs' = dirs
    /\ worktrees' = worktrees
    /\ dirty' = dirty

UncommittedChanges == ArchiveError("workspace has uncommitted changes")

\* C14 as stated: an archive without force of a dirty, existing worktree
\* returns the uncommitted-changes error and changes nothing
C14_DirtyArchiveRefused ==
    [][\A i \in RowIds : \A fail \in ArchiveFailures :
          DirtyArchive(i, fail) =>
              /\ coreResult' = UncommittedChanges
              /\ ArchiveChangedNothing]_vars

\* C14: an archive without force of a dirty, existing worktree returns an
\* error and changes nothing; the error is the uncommitted-changes one
\* whenever the git status command itself ran
C14_DirtyArchiveFails ==
    [][\A i \in RowIds : \A fail \in ArchiveFailures :
          DirtyArchive(i, fail) =>
              /\ coreResult'.op = "archive"
              /\ ~coreResult'.ok
              /\ fail # "status" => coreResult' = UncommittedChanges
              /\ ArchiveChangedNothing]_vars

\* the refusal was returned for a ready row whose dirty directory is there
C14_Witness ==
    /\ coreResult = UncommittedChanges
    /\ \E i \in RowIds :
           /\ rows[i].state = "ready"
           /\ rows[i].path \in dirs
           /\ rows[i].path \in dirty

\* the archive of row i ended as an archive should: the row is archived and
\* its directory is absent
Archived(i) ==
    /\ rows'[i].state = "archived"
    /\ rows[i].path \notin dirs'

\* the archive returned an error and left everything as it was
ArchiveFailedCleanly ==
    /\ coreResult'.op = "archive"
    /\ ~coreResult'.ok
    /\ ArchiveChangedNothing

\* C15: an archive with force, of a clean or dirty worktree, ends with the
\* row archived and the directory absent; an archive of a workspace whose
\* directory is already gone ends the same way, and where it succeeds it
\* reports removed = false with the message 'workspace path already
\* removed'. A call that returns an error having changed nothing, and the
\* note a failing prune appends to the message, are not held against it
C15_ForceArchive ==
    [][\A i \in RowIds : \A force \in BOOLEAN : \A fail \in ArchiveFailures :
          workspace_archive(i, force, fail) =>
              /\ force => (Archived(i) \/ ArchiveFailedCleanly)
              /\ rows[i].path \notin dirs =>
                    /\ Archived(i) \/ ArchiveFailedCleanly
                    /\ coreResult'.ok =>
                          /\ coreResult'.removed = FALSE
                          /\ fail # "prune" =>
                                coreResult'.message = "workspace path already removed"]_vars

\* the path as given has a parent-directory segment: ".." standing between
\* separators or the ends of the string
HasParentSegment(platform, path) ==
    \E i \in DOMAIN path :
        /\ path[i] = ".."
        /\ i = 1 \/ path[i - 1] \in Separators(platform)
        /\ i = Len(path) \/ path[i + 1] \in Separators(platform)

\* the path as given is empty or has a parent-directory segment, a root
\* component or a drive prefix
NotRelative(platform, path) ==
    \/ path = <<>>
    \/ HasParentSegment(platform, path)
    \/ path[1] \in Separators(platform)
    \/ platform = "windows" /\ path[1] = "C:"

\* C16: a file-content or file-diff call whose path is empty or has a
\* parent-directory segment, a root component or a drive prefix returns an
\* error, and has read no file and run no git command
C16_TraversalRejected ==
    (fileCall.op \in {"content", "diff"} /\ NotRelative(build, fileCall.path)) =>
        /\ ~fileCall.ok
        /\ fileCall.effects = <<>>

\* a diff was asked of an existing workspace for a path with a
\* parent-directory segment after a normal one, and was refused as not
\* relative
C16_Witness ==
    /\ fileCall.op = "diff"
    /\ fileCall.ws \in RowIds
    /\ Len(fileCall.path) = 3
    /\ fileCall.path[1] = "a"
    /\ HasParentSegment(build, fileCall.path)
    /\ ~fileCall.ok
    /\ fileCall.error = "file path must be relative"

\* no two rows of a repository share a directory name or a branch
RowsUnique ==
    \A i, j \in RowIds :
        (i # j /\ rows[i].repository_id = rows[j].repository_id) =>
            /\ rows[i].directory_name # rows[j].directory_name
            /\ rows[i].branch # rows[j].branch

\* the directory name a create derives when it does not draw one
GivenName(name, branch) ==
    IF IsSome(name) THEN name[1] ELSE safe_dir_name(branch_leaf(branch[1]))

\* a create whose directory name or branch is held by a row fails and
\* leaves the table as it was
ReusingCreateFails ==
    \A name \in NameArgs : \A base \in BaseArgs : \A branch \in BranchArgs :
    \A fail \in CreateFailures :
        (/\ IsSome(name) \/ IsSome(branch)
         /\ \E i \in RowIds :
               \/ rows[i].directory_name = GivenName(name, branch)
               \/ rows[i].branch = UnwrapOr(branch, GivenName(name, branch))
         /\ workspace_create(name, base, branch, fail))
            => (~coreResult'.ok /\ rows' = rows)

\* C17: in every state reached by creates and archives no two rows of the
\* repository, archived or not, share a directory name or a branch, and a
\* create that would reuse the directory name or branch of a row fails and
\* adds no row
C17_NamesAndBranchesUnique ==
    /\ []RowsUnique
    /\ [][ReusingCreateFails]_vars

\* a create was refused by the unique index while an archived row, whose
\* directory is gone, holds the name or branch
C17_Witness ==
    /\ coreResult.op = "create"
    /\ ~coreResult.ok
    /\ coreResult.error = "db: UNIQUE constraint failed"
    /\ \E i \in RowIds : rows[i].state = "archived" /\ rows[i].path \notin dirs
    /\ \A i \in RowIds : rows[i].state = "archived"

\* the reference is the beginning of the id
BeginsWith(id, ref) == Len(ref) <= Len(id) /\ SubSeq(id, 1, Len(ref)) = ref

\* the three rules in their order: the id, the name (repositories), the
\* only id the reference begins
Resolution(kind, table, ref) ==
    LET by_id == {x \in table : x.id = ref}
        by_name == {x \in table : kind = "repo" /\ x.name = ref}
        by_prefix == {x \in table : BeginsWith(x.id, ref)}
    IN  IF by_id # {} THEN OneOf(by_id, kind)
        ELSE IF by_name # {} THEN OneOf(by_name, kind)
        ELSE OneOf(by_prefix, kind)

\* C18: a lookup returns the entity whose id is the reference, else (a
\* repository) the one whose name is the reference, else the only one
\* whose id begins with the reference; it fails with 'ambiguous' when
\* several ids begin with it and with 'not found' when none does
C18_ReferenceResolution ==
    lookup.op # "none" =>
        lookup.result = Resolution(lookup.op, lookup.table, lookup.ref)

\* C19: a migrate that finds a version in 0..3 and in which no statement
\* fails returns Ok, and every migrate that returns Ok leaves version 3;
\* no migrate lowers the version; a migrate that finds version 3 changes
\* nothing; a migrate that fails leaves the store as it found it, so that
\* the next attempt starts where this one started; a version outside 0..3
\* makes migrate fail
C19_MigrateForwardIdempotent ==
    [][\A fail \in MigrateFailures :
          migrate(fail) =>
              /\ store'.version >= store.version
              /\ (store.version \in 0..SCHEMA_VERSION /\ fail = "none") => migrated'.ok
              /\ migrated'.ok => store'.version = SCHEMA_VERSION
              /\ store.version = SCHEMA_VERSION => (migrated'.ok /\ store' = store)
              /\ ~migrated'.ok => store' = store
              /\ store.version \notin 0..SCHEMA_VERSION => ~migrated'.ok]_vars

\* a version 1 file, whose first attempt failed, was migrated by a later
\* attempt: it is at version 3 with every index and only checked states
C19_Witness ==
    /\ migrated.op = "migrate"
    /\ migrated.ok
    /\ migrated.from = 1
    /\ migrated.n >= 2
    /\ store.version = SCHEMA_VERSION
    /\ store.indexes = RepoIndexes \cup WorkspaceIndexes
    /\ \E i \in DOMAIN store.states : store.states[i] = "error"

\* a step of workspace_create
Creates ==
    \E name \in NameArgs, base \in BaseArgs, branch \in BranchArgs,
       fail \in CreateFailures : workspace_create(name, base, branch, fail)

\* the position of a step in the list of what a call ran, 0 if it did not
\* run it
StepAt(steps, step) ==
    IF \E k \in DOMAIN steps : steps[k] = step
    THEN CHOOSE k \in DOMAIN steps : steps[k] = step
    ELSE 0

\* C24: workspace_create inserts the row only after git worktree add has
\* succeeded; a create that fails at any step adds no row; and when the
\* failing step is the insert, git worktree remove --force is run for the
\* new working copy before the error is returned
C24_InsertAfterWorktree ==
    [][Creates =>
        \E steps \in {coreResult'.steps} :
          /\ StepAt(steps, InsertRow) > 0
                => /\ StepAt(steps, WorktreeAdd) = 1
                   /\ StepAt(steps, InsertRow) = 2
          /\ coreResult'.ok
                => /\ rows' = Append(rows, rows'[Len(rows')])
                   /\ rows'[Len(rows')].path \in dirs'
                   /\ rows'[Len(rows')].path \in DOMAIN worktrees'
                   /\ worktrees'[rows'[Len(rows')].path] = rows'[Len(rows')].branch
                   /\ steps = <<WorktreeAdd, InsertRow>>
          /\ ~coreResult'.ok => rows' = rows
          /\ (~coreResult'.ok /\ StepAt(steps, InsertRow) > 0)
                => steps = <<WorktreeAdd, InsertRow, WorktreeRemoveForce>>]_vars

\* a create whose insert failed returned its error after the removal, and
\* the working copy it had made is gone
C24_Witness ==
    /\ coreResult.op = "create"
    /\ ~coreResult.ok
    /\ coreResult.steps = <<WorktreeAdd, InsertRow, WorktreeRemoveForce>>
    /\ rows # <<>>
    /\ \A i \in RowIds : rows[i].state = "ready"
    /\ Cardinality(dirs) = Len(rows)

(***************************************************************************)
(* Sessions: properties                                                    *)
(***************************************************************************)
\* what an upsert that found `found` must leave: a session holding the
\* token, under the given agent_id when there was none, and under the
\* agent_id and started_at of the session that was there otherwise
Upserted(found, left, agent_id, resume_id) ==
    /\ IsSome(left)
    /\ left[1].resume_id = Some(resume_id)
    /\ IF IsSome(found)
       THEN /\ left[1].agent_id = found[1].agent_id
            /\ left[1].started_at = found[1].started_at
       ELSE left[1].agent_id = agent_id

\* session_set_resume_id with no session file: an error, nothing written
SetWithoutSession ==
    (sessionCall.op = "set_resume_id" /\ ~IsSome(sessionCall.found))
        => (~sessionCall.ok /\ sessionCall.left = sessionCall.found)

\* session_upsert_resume_id of the core crate
CoreUpsert ==
    sessionCall.op = "upsert_resume_id"
        => /\ sessionCall.ok
           /\ Upserted(sessionCall.found, sessionCall.left,
                       sessionCall.agent_id, sessionCall.resume_id)

\* session_upsert_resume_id of the desktop, once it has returned
DesktopUpsert ==
    \A u \in DOMAIN upserts :
        upserts[u].at \in {"done", "failed"}
            => Upserted(upserts[u].existing, upserts[u].returned,
                        upserts[u].agent_id, upserts[u].resume_id)

\* C20: session_set_resume_id on a workspace with no session file returns
\* an error and writes nothing; session_upsert_resume_id always ends with a
\* session file whose resume_id is the given token, creating the session
\* with the given agent_id when none exists and otherwise keeping the
\* existing agent_id and started_at.
C20_SessionResume == SetWithoutSession /\ CoreUpsert /\ DesktopUpsert

(***************************************************************************)
(* Agent Supervisor: properties                                            *)
(***************************************************************************)
SameSession(r1, r2) == r1 # r2 /\ runs[r1].sid = runs[r2].sid

\* C2: at most one run per session id: of the RunAgent calls carrying one
\* session id at most one at a time has spawned a child and is waiting to
\* register or is registered, so that no insert finds a handle to replace
C2_AtMostOneRunPerSession ==
    \A r1, r2 \in RunIds :
        SameSession(r1, r2) =>
           ~(runs[r1].handle \in {"none", "map"} /\ runs[r2].handle \in {"none", "map"})

StopReplied(status) ==
    /\ reply' # reply
    /\ reply'.op = "stop"
    /\ reply'.status = status

\* C5: StopAgent on a registered session id takes its handle out of the map
\* and issues a kill to its child, and answers ok once the child has ended;
\* StopAgent on a session id with no handle (a second StopAgent, or an id
\* never registered) answers not-found and changes nothing
C5_StopAgent ==
    [][/\ (lock.op = "free" /\ lock'.op = "stop") =>
             /\ lock'.session_id \in DOMAIN agents
             /\ agents[lock'.session_id] = lock'.run
             /\ lock'.session_id \notin DOMAIN agents'
             /\ runs'[lock'.run].killed
       /\ StopReplied("not_found") =>
             /\ reply'.session_id \notin DOMAIN agents
             /\ UNCHANGED <<agents, runs, chan, subs, lock, exitTimer, exited>>
       /\ StopReplied("ok") =>
             /\ lock.op = "stop"
             /\ reply'.session_id = lock.session_id
             /\ lock.session_id \notin DOMAIN agents
             /\ runs[lock.run].child = "dead"]_vars

\* a second StopAgent: the only run was stopped (its handle is gone while
\* its pump task has not reached its teardown and no shutdown ran), and
\* StopAgent for its session id then answered not-found
C5_Witness ==
    /\ Len(runs) = 1
    /\ runs[1].handle = "dropped" /\ runs[1].pump = "read"
    /\ ~exitTimer
    /\ reply = Reply("stop", runs[1].sid, "not_found")

HasCompleted(ch) == \E k \in DOMAIN ch : ch[k].event_type = "completed"

\* the stdout of the run's child is at EOF and its pump task has not ended
EOFReached(r) == r \in RunIds /\ runs[r].child = "dead" /\ runs[r].pump # "done"

\* the completed sentinel was broadcast and the session id is not in the map
SessionDone(r) ==
    /\ r \in RunIds
    /\ HasCompleted(chan[r])
    /\ runs[r].sid \notin DOMAIN agents
    /\ \A a \in list_active_agents : a.session_id # runs[r].sid

\* C6 as stated: once the stdout of a session's child is at EOF the pump
\* eventually broadcasts the completed sentinel and the session id is
\* eventually absent from the active-agent map
C6_EOFLeadsToDeregistered ==
    \A r \in 1..MaxRuns : EOFReached(r) ~> SessionDone(r)

\* C6: once the stdout of a session's child is at EOF the pump eventually
\* broadcasts the completed sentinel and the session id is eventually absent
\* from the active-agent map, unless the daemon process exits first
C6_EOFLeadsToDeregisteredOrExit ==
    \A r \in 1..MaxRuns : EOFReached(r) ~> (SessionDone(r) \/ exited)

C6_Witness ==
    \E r \in RunIds :
        /\ runs[r].child = "dead" /\ SessionDone(r)
        /\ runs[r].pump = "done"
        /\ ~exitTimer

\* C7: when the daemon process has exited, no child it spawned is still
\* running without a kill issued to it
C7_NoChildOutlivesDaemon ==
    exited => \A r \in RunIds : runs[r].child = "dead" \/ runs[r].killed

(***************************************************************************)
(* Agent Supervisor: properties of the event streams                       *)
(***************************************************************************)
SameEvent(a, b) ==
    /\ a.event_type = b.event_type
    /\ a.session_id = b.session_id
    /\ a.payload = b.payload

\* a is a subsequence of b, in order
RECURSIVE IsSubsequence(_, _)
IsSubsequence(a, b) ==
    IF a = <<>> THEN TRUE
    ELSE IF b = <<>> THEN FALSE
    ELSE IF SameEvent(Head(a), Head(b)) THEN IsSubsequence(Tail(a), Tail(b))
    ELSE IsSubsequence(a, Tail(b))

\* the events broadcast on the subscriber's channel after it subscribed
AfterSubscription(sub) == SubSeq(chan[sub.run], sub.at + 1, Len(chan[sub.run]))

\* C3: what a subscriber has received is a subsequence, in order, of the
\* events broadcast on the channel of its session after it subscribed, and
\* every event it received carries the session id it asked for
C3_SubscriberSeesOwnSessionInOrder ==
    \A s \in SubIds :
        \E sub \in {subs[s]} :
            /\ runs[sub.run].sid = sub.session_id
            /\ \A k \in DOMAIN sub.received :
                  sub.received[k].session_id = sub.session_id
            /\ IsSubsequence(sub.received, AfterSubscription(sub))

\* a client attached after the first event of its session and has received
\* later ones, while the other session has broadcast events of its own
C3_Witness ==
    \E s \in SubIds, r \in RunIds :
        /\ subs[s].kind = "attach"
        /\ subs[s].at > 0
        /\ Len(subs[s].received) >= 2
        /\ runs[r].sid # subs[s].session_id
        /\ Len(chan[r]) >= 2

\* the completed sentinel was broadcast after the subscription
SentinelAfter(sub) ==
    \E k \in DOMAIN chan[sub.run] :
        k > sub.at /\ chan[sub.run][k].event_type = "completed"

\* C4: a subscriber that fell behind still gets the later events up to the
\* completed sentinel: a stream that has ended, on a channel whose sentinel
\* was broadcast after the subscription, ended with the sentinel
C4_SubscriberReceivesSentinel ==
    \A s \in SubIds :
        \E sub \in {subs[s]} :
            (sub.state # "open" /\ SentinelAfter(sub)) =>
                /\ sub.received # <<>>
                /\ sub.received[Len(sub.received)].event_type = "completed"

\* the events the pump task's parser returns for the lines, line by line
RECURSIVE NormalizerEvents(_, _, _)
NormalizerEvents(sid, lines, p) ==
    IF lines = <<>> THEN <<>>
    ELSE LET v == from_str(Head(lines))
             res == IF IsSome(v) THEN parse_value(p, v[1]) ELSE Ret(None, p)
         IN  LineEvents(sid, UnwrapOr(res.events, <<>>))
                \o NormalizerEvents(sid, Tail(lines), res.state)

StartedEvent(run) == AgentEvent(run.sid, "started", to_string([engine |-> run.engine]))

\* what the channel of a run holds according to the rule: started, the
\* events of every line the child has printed, and completed once the pump
\* task has left its loop
ChannelByRule(run) ==
    IF run.pump \in {"none", "start"} THEN <<>>
    ELSE <<StartedEvent(run)>>
            \o NormalizerEvents(run.sid, run.stdout, AgentParser_new)
            \o (IF run.pump = "read" THEN <<>> ELSE <<CompletedEvent(run.sid)>>)

\* C21: the events broadcast on a session's channel are the synthetic
\* started event, then for each stdout line of the child, in order, the
\* events the session's parser returns for it (none for a line that is no
\* JSON or that the parser answers with None), and last the completed
\* sentinel, after which nothing is broadcast
C21_ChannelSequence ==
    \A r \in RunIds : chan[r] = ChannelByRule(runs[r])

\* the step leaves the handle and the child of run q as they were
HandleUntouched(q) ==
    /\ runs'[q].handle = runs[q].handle
    /\ runs'[q].killed = runs[q].killed
    /\ \A sid \in DOMAIN agents :
          agents[sid] = q => (sid \in DOMAIN agents' /\ agents'[sid] = q)

\* C22: the teardown of a pump task deregisters only the handle of its own
\* run: when the session was stopped and a new RunAgent has registered the
\* same session id before the old pump task saw EOF, the old teardown
\* neither removes the new run's handle nor has the new run's child killed
C22_TeardownOwnHandleOnly ==
    [][\A r \in RunIds :
          PumpTeardown(r) => \A q \in RunIds \ {r} : HandleUntouched(q)]_vars

\* C23: the stream of the RunAgent caller begins with the synthetic started
\* event: the caller's receiver was created before the pump task sent its
\* first event, so the caller is sent every event of the session
C23_CallerSeesStarted ==
    \A s \in SubIds :
        subs[s].kind = "run" =>
            /\ subs[s].at = 0
            /\ subs[s].received # <<>> => subs[s].received[1].event_type = "started"

\* the owner of the mutex is suspended in child.kill().await
AwaitingChild ==
    /\ lock.op \in {"stop", "shutdown"}
    /\ lock.run # 0
    /\ runs[lock.run].child = "running"

\* C25: the mutex of the active-agent map is held only for a lookup, an
\* insert or a remove: no handler and no pump task keeps it while it waits
\* for a child to end, so RunAgent, AttachAgent and ListActiveAgents never
\* wait behind the termination of a child
C25_MutexOnlyForMapAccess == ~AwaitingChild

\* the handle of run r is taken out of the map by the step
LeavesMap(r) ==
    /\ r \in RunIds
    /\ runs[r].handle = "map"
    /\ runs'[r].handle # "map" \/ \A sid \in DOMAIN agents' : agents'[sid] # r

\* the drain of shutdown holds the handle and has not come to it yet
AwaitsDrain(run) == run.handle = "held" /\ lock.op = "shutdown"

\* C26: whenever a handle leaves the active-agent map (by StopAgent, by the
\* pump's teardown, by the drain of Shutdown or by an insert under the same
\* session id) a kill is issued to its child: the handle of a child that
\* was sent no kill is in the map, or with a RunAgent that has not inserted
\* it yet, or waits for its turn in the drain, which comes
C26_KillOnHandleRemoval ==
    /\ [](\A r \in RunIds :
            \/ runs[r].killed
            \/ runs[r].handle \in {"none", "map"}
            \/ AwaitsDrain(runs[r]))
    /\ [][\A r \in 1..MaxRuns :
            LeavesMap(r) => (runs'[r].killed \/ lock'.op = "shutdown")]_vars
    /\ \A r \in 1..MaxRuns :
            (r \in RunIds /\ AwaitsDrain(runs[r])) ~> (r \in RunIds /\ runs[r].killed)

\* a handle was replaced in the map by the insert of another run of its
\* session id, and dropped: its child was sent the kill while its pump task
\* is still reading
C26_Witness ==
    \E r, q \in RunIds :
        /\ SameSession(r, q)
        /\ runs[r].sid \in DOMAIN agents /\ agents[runs[r].sid] = q
        /\ runs[r].handle = "dropped" /\ runs[r].killed
        /\ runs[r].child = "running"
        /\ runs[r].pump = "read"
        /\ reply.op # "stop"

\* C27: a session whose child would end by itself reaches completion: the
\* daemon never leaves the child blocked on a captured output pipe, so
\* whatever the child writes to stderr and stdout, its stdout reaches EOF,
\* the completed sentinel is broadcast and the session id leaves the map
C27_SessionCompletes ==
    \A r \in 1..MaxRuns : (r \in RunIds) ~> SessionDone(r)

(***************************************************************************)
(* Agent RPCs: error replies                                               *)
(***************************************************************************)
RpcErrors == {"already_exists", "invalid_argument", "internal", "not_found"}

SupervisorUnchanged == UNCHANGED <<agents, runs, chan, subs, lock>>

\* the conditions under which run_agent returns Err
RunAgentFails(sid, engine, spawn_ok) ==
    \/ sid \in DOMAIN agents
    \/ engine \notin KnownEngines
    \/ ~spawn_ok

\* C28: an agent RPC that returns an error changes nothing of the supervisor:
\* a step that produces an error reply leaves the map, the children, the
\* channels, the subscribers and the lock as they were; RunAgent on a
\* registered session id, on an unknown engine or with a failing spawn
\* returns such an error, and so do AttachAgent and StopAgent on a session id
\* that is not in the map.
C28_ErrorLeavesStateUnchanged ==
    [][ /\ (reply' # reply /\ reply'.status \in RpcErrors) => SupervisorUnchanged
        /\ \A sid \in Sessions, engine \in RequestEngines, spawn_ok \in BOOLEAN :
              (RunAgentStart(sid, engine, spawn_ok) /\ RunAgentFails(sid, engine, spawn_ok))
                  => /\ reply'.op = "run"
                     /\ reply'.status \in {"already_exists", "invalid_argument", "internal"}
                     /\ SupervisorUnchanged
        /\ \A sid \in Sessions :
              ((attach_agent(sid) \/ stop_agent(sid)) /\ sid \notin DOMAIN agents)
                  => /\ reply'.status = "not_found"
                     /\ SupervisorUnchanged
      ]_vars

\* a spawn failure of RunAgent on one session while the other session is
\* registered with its child running
C28_Witness ==
    /\ reply.op = "run" /\ reply.status = "internal"
    /\ \E r \in RunIds :
          /\ runs[r].sid # reply.session_id
          /\ runs[r].sid \in DOMAIN agents /\ agents[runs[r].sid] = r
          /\ runs[r].child = "running"

(***************************************************************************)
(* Agent Supervisor: the end of the subscriber streams                     *)
(***************************************************************************)
\* the session of a run has ended: its child's stdout reached EOF or its
\* line loop was left (the sentinel is out), or StopAgent took its handle
SessionEnded(r) ==
    \/ HasCompleted(chan[r])
    \/ runs[r].child = "dead"
    \/ runs[r].handle \in {"held", "dropped"}

StreamEnded(s) == subs[s].state # "open"

\* nothing follows the completed sentinel in a list of events
SentinelLast(events) ==
    \A k \in DOMAIN events : events[k].event_type = "completed" => k = Len(events)

\* C29: every subscriber stream of a session, the RunAgent caller's and every
\* AttachAgent's, eventually terminates once the session has ended by EOF or
\* by StopAgent; once the pump task has finished, the handle has left the map
\* and the handler has returned, the channel has no sender; and no subscriber
\* receives an event after the completed sentinel.
C29_StreamsTerminate ==
    /\ [](\A s \in SubIds : SentinelLast(subs[s].received))
    /\ [](\A r \in RunIds :
            (runs[r].pump = "done" /\ runs[r].handle \notin {"map", "held"}
                /\ runs[r].pc = "streaming") => ~SendersAlive(runs[r]))
    /\ \A s \in 1..MaxSubs :
          (s \in SubIds /\ SessionEnded(subs[s].run)) ~> (s \in SubIds /\ StreamEnded(s))

\* a caller's stream and an attached stream of one session, both closed
\* after the sentinel, the session ended by StopAgent
C29_Witness ==
    \E s, t \in SubIds :
        /\ subs[s].run = subs[t].run
        /\ subs[s].kind = "run" /\ subs[t].kind = "attach"
        /\ subs[s].state = "closed" /\ subs[t].state = "closed"
        /\ HasCompleted(subs[s].received) /\ HasCompleted(subs[t].received)
        /\ runs[subs[s].run].killed
        /\ reply = Reply("stop", subs[s].session_id, "ok")

(***************************************************************************)
(* Store: two processes in migrate                                         *)
(***************************************************************************)
BothReturned == \A p \in Procs : migrators.proc[p].pc = "done"

\* what both calls leave when the steps ran once on the file as found
MigratedOnce ==
    /\ migrators.applied = 1
    /\ store = migration(migrators.found.version, migrators.found)
    /\ store.version = SCHEMA_VERSION

\* the process that got the immediate transaction second found version 3
\* there and changed nothing
SecondChangedNothing ==
    \A p \in Procs :
        migrators.proc[p].order = 2
            => /\ migrators.proc[p].reread = SCHEMA_VERSION
               /\ ~migrators.proc[p].changed

\* the call gave up waiting for the write lock and did nothing
GaveUpWaiting(p) ==
    /\ ~migrators.proc[p].ok
    /\ migrators.proc[p].error = "db: database is locked"
    /\ migrators.proc[p].order = 0
    /\ ~migrators.proc[p].changed

InsertFailed ==
    /\ Creates
    /\ ~coreResult'.ok
    /\ StepAt(coreResult'.steps, InsertRow) > 0

\* C31: a workspace_create that fails at the row insert leaves the
\* repository as it was before the call: the worktree directory is gone, the
\* worktree is not registered and the branch the call created does not
\* exist, so that a retry meets the conditions of the first attempt
C31_FailedInsertRestoresRepository ==
    [][InsertFailed =>
          /\ dirs' = dirs
          /\ worktrees' = worktrees
          /\ branches' = branches]_vars

(***************************************************************************)
(* Workspace Lifecycle: sidecar files and archival                         *)
(***************************************************************************)
\* the only uncommitted content of row i's working copy is its sidecar
OnlySidecar(i) ==
    /\ rows[i].path \in dirs
    /\ rows[i].path \notin dirty
    /\ \E file \in SidecarFiles : <<rows[i].path, file>> \in sidecar.files

\* C32: sidecar files never block archival: an archive with force=false of a
\* workspace whose only uncommitted content is the .conductor-app/ sidecar
\* succeeds and leaves the row archived
C32_SidecarNeverBlocksArchive ==
    [][\A i \in RowIds :
          (OnlySidecar(i) /\ workspace_archive(i, FALSE, "none"))
              => /\ coreResult'.ok
                 /\ rows'[i].state = "archived"]_vars

(***************************************************************************)
(* Workspace Lifecycle: where a working copy is made                       *)
(***************************************************************************)
\* the path is a direct child of the directory it was joined to
DirectChild(joined) ==
    /\ ~joined.replaced
    /\ ~joined.at.left
    /\ joined.at.depth = 1

\* C33: every working copy made by workspace_create lies directly inside
\* <home>/workspaces/<repo-dir>-<id8>/: for every name given by the caller the
\* workspace path is a direct child of that directory, never outside it and
\* never nested deeper
C33_WorkspaceDirectChild ==
    (pure.op = "workspace_path" /\ pure.made) => DirectChild(pure.joined)

(***************************************************************************)
(* Workspace Lifecycle: best-effort cleanups                               *)
(***************************************************************************)
\* the result texts of the model that carry the failure of a cleanup
FailureTexts ==
    {<<"warning: failed to archive session data", "sidecar">>,
     <<"warning: failed to archive session data (prune failed)", "sidecar">>,
     <<"warning: failed to archive session data (prune failed)", "prune">>,
     <<"archived (prune failed)", "prune">>,
     <<"workspace path already removed (prune failed)", "prune">>}

Mentions(text, cleanup) == <<text, cleanup>> \in FailureTexts

\* an archive of row i in which only best-effort steps fail: it is not
\* refused for uncommitted changes
CleanupFailsInArchive(i, force, fail) ==
    /\ fail \in {"sidecar", "prune"}
    /\ fail = "sidecar" => rows[i].path \in dirs
    /\ ~(rows[i].path \in dirs /\ CleanRequired(force) /\ git_status(rows[i].path) # {})
    /\ workspace_archive(i, force, fail)

\* C34: a failing best-effort cleanup leaves the primary outcome as it is
\* and is recorded in the result message: workspace_archive with a failing
\* sidecar copy or a failing prune removes the worktree, sets the row to
\* archived and returns ok with the failure in its message; workspace_create
\* with a failing insert and a failing compensating removal returns the
\* insert error, with the failure of the removal in it
C34_CleanupFailureRecorded ==
    [][/\ \A i \in RowIds, force \in BOOLEAN, fail \in ArchiveFailures :
            CleanupFailsInArchive(i, force, fail)
                => /\ coreResult'.ok
                   /\ rows'[i].state = "archived"
                   /\ rows[i].path \notin dirs'
                   /\ Mentions(coreResult'.message, fail)
       /\ \A name \in NameArgs, base \in BaseArgs, branch \in BranchArgs :
            (workspace_create(name, base, branch, "insert_and_cleanup")
                /\ StepAt(coreResult'.steps, WorktreeRemoveForce) > 0)
                => /\ ~coreResult'.ok
                   /\ coreResult'.error = "db"
                   /\ rows' = rows
                   /\ Mentions(coreResult'.error, "worktree remove")]_vars

(***************************************************************************)
(* Workspace Lifecycle: automatic names                                    *)
(***************************************************************************)
\* C35: auto_workspace_name ends after at most 200 draws with a name that no
\* row of the repository has as directory_name; the name is a city whenever
\* some city is unused for the repository, and the ws-<8 hex> fallback only
\* when no city is unused
C35_AutoNameUnused ==
    pure.op = "auto_workspace_name" =>
        /\ pure.returned.draws <= MaxDraws
        /\ pure.returned.name \notin pure.used
        /\ (CityTokens \ pure.used # {}) => pure.returned.name \in CityTokens
        /\ (pure.returned.name \notin CityTokens) => CityTokens \ pure.used = {}

(***************************************************************************)
(* Event Normalizer: Codex turns and the counters                          *)
(***************************************************************************)
IsTurnStarted(value) == Get(value, "type") = Some("turn.started")

\* the turn.started lines among the first n lines fed
TurnsStarted(n) == {i \in 1..n : IsTurnStarted(fed[i])}

\* the events returned for the j-th line
EventsAt(j) == UnwrapOr(emitted[j], <<>>)

IsTurnAction(e, phase, id) ==
    /\ e.type = "agent.action"
    /\ e.engine = "codex"
    /\ e.phase = phase
    /\ e.action.kind = "turn"
    /\ e.action.id = id

\* the turn.started line at j is the k-th of its parser, k counted from 0,
\* and returns the started turn action turn:k alone
TurnStartedAt(j) ==
    /\ Len(EventsAt(j)) = 1
    /\ IsTurnAction(EventsAt(j)[1], "started",
                    "turn:" \o ToString(Cardinality(TurnsStarted(j - 1))))

\* the turn.completed line at j returns the completed turn action with the
\* id of the most recent turn.started (turn:0 when there was none), and the
\* agent.completed event right after it
TurnCompletedAt(j) ==
    /\ Len(EventsAt(j)) = 2
    /\ \A i \in TurnsStarted(j) :
          (\A k \in TurnsStarted(j) : k <= i)
              => IsTurnAction(EventsAt(j)[1], "completed", EventsAt(i)[1].action.id)
    /\ TurnsStarted(j) = {} => IsTurnAction(EventsAt(j)[1], "completed", "turn:0")
    /\ Get(EventsAt(j)[1], "ok") = Some(TRUE)
    /\ EventsAt(j)[2].type = "agent.completed"
    /\ EventsAt(j)[2].engine = "codex"

CountersMonotonic ==
    /\ parser'.codex.turn_index >= parser.codex.turn_index
    /\ parser'.codex.note_seq >= parser.codex.note_seq
    /\ parser'.claude.note_seq >= parser.claude.note_seq

\* C36: the Codex turn counter and both note counters never decrease; the
\* k-th turn.started of a parser (k from 0) emits the started turn action
\* turn:k; every turn.completed emits the completed turn action with the id
\* of the most recent turn.started, immediately followed by agent.completed
C36_TurnIdsAndCounters ==
    /\ [][CountersMonotonic]_vars
    /\ [](\A j \in DOMAIN fed :
            /\ IsTurnStarted(fed[j]) => TurnStartedAt(j)
            /\ IsTurnCompleted(fed[j]) => TurnCompletedAt(j))

\* two turns were started and the second was completed, as turn:1
C36_Witness ==
    /\ Len(fed) = 3
    /\ IsTurnStarted(fed[1]) /\ IsTurnStarted(fed[2]) /\ IsTurnCompleted(fed[3])
    /\ EventsAt(3)[1].action.id = "turn:1"
    /\ parser.codex.turn_index = 2

(***************************************************************************)
(* Event Normalizer: the message of a Claude assistant line                *)
(***************************************************************************)
\* the texts of the text blocks of a list of blocks, in block order
RECURSIVE BlockTexts(_)
BlockTexts(blocks) ==
    IF blocks = <<>> THEN <<>>
    ELSE (IF Head(blocks).type = "text" /\ "text" \in DOMAIN Head(blocks)
          THEN <<Head(blocks).text>> ELSE <<>>) \o BlockTexts(Tail(blocks))

\* the phase and id of the action each block stands for, in block order; n
\* is the number of thinking blocks before
RECURSIVE BlockActions(_, _)
BlockActions(blocks, n) ==
    IF blocks = <<>> THEN <<>>
    ELSE LET b == Head(blocks)
         IN  IF b.type = "tool_use"
             THEN <<<<"started", b.id>>>> \o BlockActions(Tail(blocks), n)
             ELSE IF b.type = "tool_result"
             THEN <<<<"completed", b.tool_use_id>>>> \o BlockActions(Tail(blocks), n)
             ELSE IF b.type = "thinking"
             THEN <<<<"completed", "claude.note." \o ToString(n + 1)>>>>
                      \o BlockActions(Tail(blocks), n + 1)
             ELSE BlockActions(Tail(blocks), n)

\* the thinking blocks of the lines fed before the j-th
NotesBefore(j) ==
    Len(SelectSeq(Flatten([i \in 1..(j - 1) |-> AssistantBlocks(fed[i])]),
                  LAMBDA b : b.type = "thinking"))

MessagesOf(events) == SelectSeq(events, LAMBDA ev : ev.type = "agent.message")

ActionsOf(events) == SelectSeq(events, LAMBDA ev : ev.type = "agent.action")

\* C37: a Claude assistant line yields at most one agent.message, and one
\* only if it has a text block; the message is the last event of the line,
\* its text is the texts of the line's text blocks joined by a newline in
\* block order, and the line's action events come before it in block order
C37_OneMessageLast ==
    \A j \in DOMAIN fed :
        fed[j] \in AssistantLines =>
            \E events \in {EventsAt(j)}, blocks \in {AssistantBlocks(fed[j])} :
                /\ emitted[j] # None
                /\ Len(MessagesOf(events)) <= 1
                /\ MessagesOf(events) # <<>> =>
                      /\ BlockTexts(blocks) # <<>>
                      /\ events[Len(events)] = MessagesOf(events)[1]
                      /\ events[Len(events)].engine = "claude"
                      /\ events[Len(events)].text = JoinWith(BlockTexts(blocks), "\n")
                /\ BlockTexts(blocks) # <<>> => MessagesOf(events) # <<>>
                /\ events = ActionsOf(events) \o MessagesOf(events)
                /\ [k \in DOMAIN ActionsOf(events) |->
                       <<ActionsOf(events)[k].phase, ActionsOf(events)[k].action.id>>]
                     = BlockActions(blocks, NotesBefore(j))

\* a line with a text, a tool_use between and a second text: the action,
\* then the message of both texts
C37_Witness ==
    \E j \in DOMAIN fed :
        /\ fed[j] \in AssistantLines
        /\ Len(AssistantBlocks(fed[j])) = 3
        /\ AssistantBlocks(fed[j])[2].type = "tool_use"
        /\ Len(EventsAt(j)) = 2
        /\ EventsAt(j)[1].type = "agent.action"
        /\ EventsAt(j)[2].type = "agent.message"
        /\ EventsAt(j)[2].text = "bye\nhello"

(***************************************************************************)
(* Event Normalizer: the answer of a Codex turn                            *)
(***************************************************************************)
\* an item line of any phase whose item is an agent_message with a text
IsAgentMessage(value) ==
    /\ Get(value, "type") \in {Some("item.started"), Some("item.updated"),
                               Some("item.completed")}
    /\ "item" \in DOMAIN value
    /\ Get(value.item, "type") = Some("agent_message")
    /\ "text" \in DOMAIN value.item

\* the text of the most recent agent_message among the first n lines, ""
\* when there is none
LastAnswer(n) ==
    LET seen == {i \in 1..n : IsAgentMessage(fed[i])}
    IN  IF seen = {} THEN ""
        ELSE fed[CHOOSE i \in seen : \A k \in seen : k <= i].item.text

EndsTurn(value) ==
    Get(value, "type") \in {Some("turn.completed"), Some("turn.failed")}

\* C38: the answer of the agent.completed of every Codex turn.completed or
\* turn.failed is the text of the most recent agent_message item the parser
\* saw, in any item phase, and the empty string when it saw none; no line
\* other than an agent_message with a text changes the recorded answer
C38_AnswerIsLastMessage ==
    /\ [](\A j \in DOMAIN fed :
            EndsTurn(fed[j]) =>
                /\ Len(CompletedEventsAt(j)) = 1
                /\ CompletedEventsAt(j)[1].engine = "codex"
                /\ CompletedEventsAt(j)[1].answer = LastAnswer(j))
    /\ [](UnwrapOr(parser.codex.answer, "") = LastAnswer(Len(fed)))
    /\ [][(fed' # fed /\ ~IsAgentMessage(fed'[Len(fed')]))
             => parser'.codex.answer = parser.codex.answer]_vars

\* a message of a started item, then a failed and a completed turn: both
\* carry its text
C38_Witness ==
    /\ Len(fed) = 3
    /\ fed[1] = AnswerValues[1]
    /\ Get(fed[2], "type") = Some("turn.failed")
    /\ Get(fed[3], "type") = Some("turn.completed")
    /\ CompletedEventsAt(2)[1].answer = "draft"
    /\ CompletedEventsAt(3)[1].answer = "draft"

(***************************************************************************)
(* Event Normalizer: the two engines' states are separate                  *)
(***************************************************************************)
\* the engine whose parse function returns Some for the value in state p
RecognisedBy(p, value) ==
    IF IsSome(parse_codex_event(value, p.codex).events) THEN "codex"
    ELSE IF IsSome(parse_claude_event(value, p.claude).events) THEN "claude"
    ELSE "none"

\* C39: a value for which parse_value returns None leaves the whole parser
\* state as it was; a value Codex recognises leaves the Claude state (resume,
\* pending, note_seq) as it was, and a value Claude recognises leaves the
\* Codex state (resume, answer, turn_index, note_seq) as it was
C39_EnginesSeparate ==
    [][fed' # fed =>
         LET value == fed'[Len(fed')]
             out == emitted'[Len(emitted')]
             by == RecognisedBy(parser, value)
         IN  /\ (out = None) <=> (by = "none")
             /\ out = None => parser' = parser
             /\ by = "codex" => parser'.claude = parser.claude
             /\ by = "claude" => parser'.codex = parser.codex]_vars

\* a tool_use is pending and a thread has started when a line without its
\* field comes: it returns None and both states stay
C39_Witness ==
    /\ Len(fed) = 3
    /\ fed[1] = Assistant(<<ToolUse("u1", "Bash", [command |-> "ls"])>>)
    /\ fed[2] = [type |-> "thread.started", thread_id |-> "t1"]
    /\ fed[3] = [type |-> "error"]
    /\ emitted[3] = None
    /\ "u1" \in DOMAIN parser.claude.pending
    /\ parser.codex.resume = Some("t1")

(***************************************************************************)
(* Workspace Lifecycle: the moves of a row's state                         *)
(***************************************************************************)
\* no row is deleted and no row changes its id
RowsKept ==
    /\ Len(rows') >= Len(rows)
    /\ \A i \in DOMAIN rows : rows'[i].id = rows[i].id

\* the rows a step adds are ready
InsertedReady == \A i \in (DOMAIN rows') \ (DOMAIN rows) : rows'[i].state = "ready"

\* the last call was an archive that returned ok, and its row is archived
ArchiveWroteArchived ==
    (coreResult.op = "archive" /\ coreResult.ok) =>
        \E i \in DOMAIN rows : rows[i].id = coreResult.id /\ rows[i].state = "archived"

\* C40 as stated: rows are inserted as ready, an archive that succeeds
\* leaves its row archived, the only change of a row's state is from ready
\* to archived, so nothing writes error or un-archives a row, and no row
\* is deleted
C40_ReadyToArchivedOnly ==
    /\ [][/\ RowsKept
          /\ InsertedReady
          /\ \A i \in DOMAIN rows :
                rows'[i].state # rows[i].state =>
                    rows[i].state = "ready" /\ rows'[i].state = "archived"]_vars
    /\ []ArchiveWroteArchived

\* C40, amended: rows are inserted as ready, an archive that succeeds leaves
\* its row archived whatever its state was, no row is deleted, and a row's
\* state changes only by an archive, to archived, or by the migration from
\* version 1 or 2, from a value outside {ready, archived, error} to error;
\* an archived row stays archived
C40_StateMoves ==
    /\ [][/\ RowsKept
          /\ InsertedReady
          /\ \A i \in DOMAIN rows :
                rows'[i].state # rows[i].state =>
                    \/ /\ rows'[i].state = "archived"
                       /\ migrated' = migrated
                       /\ coreResult'.op = "archive" /\ coreResult'.id = rows[i].id
                    \/ /\ migrated'.n # migrated.n
                       /\ store.version \in {1, 2}
                       /\ rows[i].state \notin WorkspaceStates
                       /\ rows'[i].state = "error"]_vars
    /\ []ArchiveWroteArchived

\* a file of version 2 with a row in a state of its own: the migration made
\* it error, then a row was created ready and archived
C40_Witness ==
    /\ migrators.found.version = 2
    /\ migrators.found.states = <<"creating">>
    /\ Len(rows) = 2
    /\ rows[1].state = "error"
    /\ rows[2].state = "archived"
    /\ coreResult.op = "archive" /\ coreResult.ok /\ coreResult.id = rows[2].id

====
